---- MODULE Spec2Model ----
(***************************************************************************)
(* Model of the E-NatJus analysis scripts (bdcdo/analise_enatjus).         *)
(*                                                                         *)
(* A pandas DataFrame is modelled as a sequence of runs: a run is one row  *)
(* of the table together with the number `mult` of consecutive identical   *)
(* rows it stands for (a run-length encoding, so that groups of 10, 11 or  *)
(* 100 rows fit in a short sequence).  Row order is the order of the       *)
(* sequence.  Free-text cells (txtCid, txtDcb) are sequences of            *)
(* characters, so that the text conversions of the code are computed.      *)
(*                                                                         *)
(* Percentages produced by `.round(3) * 100` are kept in tenths of a       *)
(* percent (1000 = 100.0 %).  Proportions handled by the confidence        *)
(* interval are fixed-point numbers in units of 1/Scale.                   *)
(***************************************************************************)
EXTENDS Integers, Sequences, FiniteSets, TLC

\* the value 'NÃO_PREENCHIDO' of the tables, in ASCII
NaoPreenchido == "NAO_PREENCHIDO"

VARIABLES
    pc,               \* position of the running script
    erro,             \* name of the exception that ended the script, "" if none
    chamada,          \* arguments of the function call being modelled
    df,               \* the loaded table (base_enatjus_2025-1.parquet)
    df_prep,          \* the prepared table
    lista_inst,       \* value_counts().head(24).index.tolist()
    df_controle,      \* rows of the relevant (cid, tecnologia) combinations
    df_resultados,    \* controle_por_tratamento_e_por_CID.xlsx
    df_filtrado,      \* rows of the institutions of lista_inst
    df_taxas,         \* taxas_concessao.xlsx
    df_subconjuntos,  \* taxas_concessao_subconjuntos.xlsx
    resultados,       \* list returned by processar_subconjunto
    barras,           \* the bars drawn by grafico_barras_sucesso, left to right
    limites,          \* value returned by intervalo_confianca_proporcao
    df_base,          \* the base de controle read by carregar_base_controle
    df_difs,          \* diferencas_medicamentos.xlsx
    df_comparacao,    \* comparacao_instituicoes_nacional.xlsx
    df_maiores_ganhos, \* maiores_ganhos_instituicoes_e_nacional.xlsx
    df_quadro,        \* quadro_divergencias_maximas.xlsx
    arquivos,         \* run_all_analyses.py: the files that exist
    numero,           \* number of the script being run (1..6), 0 before the loop
    scripts_sucesso,  \* counter of main()
    scripts_falha,    \* counter of main()
    historico,        \* what became of each script main() reached, in order
    exit_status       \* status the process exited with, SemStatus while it runs

vars == <<pc, erro, chamada, df, df_prep, lista_inst, df_controle, df_resultados,
          df_filtrado, df_taxas, df_subconjuntos, resultados, barras, limites,
          df_base, df_difs, df_comparacao, df_maiores_ganhos, df_quadro,
          arquivos, numero, scripts_sucesso, scripts_falha, historico, exit_status>>

varsMed == <<df_controle, df_resultados>>

varsReg == <<df_filtrado, df_taxas, df_subconjuntos, resultados, barras>>

varsRank == <<df_base, df_difs, df_comparacao, df_maiores_ganhos, df_quadro>>

varsDriver == <<arquivos, numero, scripts_sucesso, scripts_falha, historico, exit_status>>

(***************************************************************************)
(* Bounds of the model                                                     *)
(***************************************************************************)
MaxRuns == 2

MultsMed == {1, 10, 11}

(***************************************************************************)
(* Generic table helpers                                                   *)
(***************************************************************************)
RECURSIVE SumMult(_)
SumMult(t) == IF t = <<>> THEN 0 ELSE Head(t).mult + SumMult(Tail(t))

\* len(df)
NRows(t) == SumMult(t)

\* Series.unique(): the distinct values of a column in order of first appearance
RECURSIVE UniqueFrom(_, _, _)
UniqueFrom(t, col, seen) ==
    IF t = <<>> THEN <<>>
    ELSE IF Head(t)[col] \in seen
         THEN UniqueFrom(Tail(t), col, seen)
         ELSE <<Head(t)[col]>> \o UniqueFrom(Tail(t), col, seen \cup {Head(t)[col]})

Unique(t, col) == UniqueFrom(t, col, {})

Range(s) == {s[i] : i \in 1..Len(s)}

RECURSIVE SeqSum(_)
SeqSum(s) == IF s = <<>> THEN 0 ELSE Head(s) + SeqSum(Tail(s))

BoundedSeq(S, n) == UNION {[1..k -> S] : k \in 0..n}

\* rows of t whose column col has a value in vals (boolean-mask selection)
RECURSIVE Where(_, _, _)
Where(t, col, vals) ==
    IF t = <<>> THEN <<>>
    ELSE IF Head(t)[col] \in vals
         THEN <<Head(t)>> \o Where(Tail(t), col, vals)
         ELSE Where(Tail(t), col, vals)

(***************************************************************************)
(* Text conversions of preparar_dados_medicamentos                         *)
(***************************************************************************)
UpperLetters == {"A", "B", "C", "D", "E", "F", "G", "H", "I", "J", "K", "L", "M",
                 "N", "O", "P", "Q", "R", "S", "T", "U", "V", "W", "X", "Y", "Z"}

Digits == {"0", "1", "2", "3", "4", "5", "6", "7", "8", "9"}

\* missing value (NaN) of a text column
NoCid == <<>>

\* str.extract(r'([A-Z]\d{2})'): the first capital letter followed by two digits
RECURSIVE ExtractFrom(_, _)
ExtractFrom(s, i) ==
    IF i + 2 > Len(s) THEN NoCid
    ELSE IF s[i] \in UpperLetters /\ s[i + 1] \in Digits /\ s[i + 2] \in Digits
         THEN SubSeq(s, i, i + 2)
         ELSE ExtractFrom(s, i + 1)

ExtractCid(s) == ExtractFrom(s, 1)

\* str.lower() on the characters the model uses.  Accented letters are written
\* in ASCII as the letter and its accent: "A'" is A with acute, "a~" is a with
\* tilde, "c," is c with cedilla.
LowerChar(c) ==
    CASE c = "A" -> "a" [] c = "B" -> "b" [] c = "C" -> "c" [] c = "D" -> "d"
      [] c = "A'" -> "a'" [] c = "A~" -> "a~" [] c = "C," -> "c,"
      [] OTHER -> c

\* unidecode.unidecode on the characters the model uses
UnidecodeChar(c) ==
    CASE c = "a'" -> "a" [] c = "a~" -> "a" [] c = "c," -> "c"
      [] c = "A'" -> "A" [] c = "A~" -> "A" [] c = "C," -> "C"
      [] OTHER -> c

\* .str.lower().str.replace(' ', '').apply(unidecode.unidecode)
RECURSIVE PadronizarTecnologia(_)
PadronizarTecnologia(s) ==
    IF s = <<>> THEN <<>>
    ELSE IF LowerChar(Head(s)) = " "
         THEN PadronizarTecnologia(Tail(s))
         ELSE <<UnidecodeChar(LowerChar(Head(s)))>> \o PadronizarTecnologia(Tail(s))

(***************************************************************************)
(* gerar_base_diferencas_medicamentos.py                                   *)
(***************************************************************************)
\* the conclusions that take part in rate computations
ConclusoesValidas == {"F", "N"}

\* df_prep with the two derived columns added
RECURSIVE ComColunasDerivadas(_)
ComColunasDerivadas(t) ==
    IF t = <<>> THEN <<>>
    ELSE <<[origem_tratada |-> Head(t).origem_tratada,
            txtCid |-> Head(t).txtCid,
            txtDcb |-> Head(t).txtDcb,
            selConclusao |-> Head(t).selConclusao,
            cid_simplificado |-> ExtractCid(Head(t).txtCid),
            tecnologia_principio |-> PadronizarTecnologia(Head(t).txtDcb),
            mult |-> Head(t).mult]>> \o ComColunasDerivadas(Tail(t))

\* the preparation without the filter on selConclusao
preparar_sem_filtro_conclusao(t) == ComColunasDerivadas(t)

preparar_dados_medicamentos(t) ==
    Where(ComColunasDerivadas(t), "selConclusao", ConclusoesValidas)

\* head(24) of value_counts()
TopInst == 24

\* the lists value_counts().head(k).index.tolist() may be: k institutions (all of
\* them when there are fewer) in non-increasing order of their number of rows, none
\* of which has fewer rows than one left out; the order among equal counts is not
\* fixed by pandas.  NaoPreenchido is excluded before counting.
TopInstLists(t, k) ==
    LET validos == Where(t, "origem_tratada",
                         Range(Unique(t, "origem_tratada")) \ {NaoPreenchido})
        D == Range(Unique(validos, "origem_tratada"))
        cnt(i) == NRows(Where(validos, "origem_tratada", {i}))
        size == IF Cardinality(D) < k THEN Cardinality(D) ELSE k
    IN {l \in [1..size -> D] :
          /\ \A i, j \in 1..size : i < j => l[i] # l[j] /\ cnt(l[i]) >= cnt(l[j])
          /\ \A b \in D \ Range(l) : \A i \in 1..size : cnt(l[i]) >= cnt(b)}

\* rows of t in the (cid, tecnologia) combination; a missing cid matches nothing
RECURSIVE DaCombinacao(_, _, _)
DaCombinacao(t, cid, med) ==
    IF t = <<>> THEN <<>>
    ELSE IF /\ Head(t).cid_simplificado # NoCid
            /\ Head(t).cid_simplificado = cid
            /\ Head(t).tecnologia_principio = med
         THEN <<Head(t)>> \o DaCombinacao(Tail(t), cid, med)
         ELSE DaCombinacao(Tail(t), cid, med)

\* groupby([...]).size() >= min_observacoes, for the combination of row r
CombinacaoRelevante(t, r, min_observacoes) ==
    /\ r.cid_simplificado # NoCid
    /\ NRows(DaCombinacao(t, r.cid_simplificado, r.tecnologia_principio)) >= min_observacoes

\* the inner merge with combinacoes_filtradas keeps the rows of relevant combinations
RECURSIVE MergeCombinacoes(_, _, _)
MergeCombinacoes(t, todo, min_observacoes) ==
    IF t = <<>> THEN <<>>
    ELSE IF CombinacaoRelevante(todo, Head(t), min_observacoes)
         THEN <<Head(t)>> \o MergeCombinacoes(Tail(t), todo, min_observacoes)
         ELSE MergeCombinacoes(Tail(t), todo, min_observacoes)

filtrar_combinacoes_relevantes(t, lista, min_observacoes) ==
    LET filtrado == Where(t, "origem_tratada", Range(lista))
    IN MergeCombinacoes(filtrado, filtrado, min_observacoes)

\* min_observacoes passed by main()
MinObservacoesMed == 10

\* the literal of `if qtd_total > 10`
LimiteBase == 10

\* round-half-even of 1000 * k / n: value_counts(normalize=True).round(3) * 100,
\* in tenths of a percent
Round3Pct(k, n) ==
    LET q == (1000 * k) \div n
        r == (1000 * k) % n
    IN IF 2 * r < n THEN q
       ELSE IF 2 * r > n THEN q + 1
       ELSE IF q % 2 = 0 THEN q ELSE q + 1

\* the rows of one institution, one tecnologia and one cid, a missing cid being equal
\* to a missing cid
RECURSIVE filtro_nan_igual(_, _, _, _)
filtro_nan_igual(t, inst, med, cid) ==
    IF t = <<>> THEN <<>>
    ELSE IF /\ Head(t).origem_tratada = inst
            /\ Head(t).tecnologia_principio = med
            /\ Head(t).cid_simplificado = cid
         THEN <<Head(t)>> \o filtro_nan_igual(Tail(t), inst, med, cid)
         ELSE filtro_nan_igual(Tail(t), inst, med, cid)

\* rows of one institution, one tecnologia and one cid (NaN == NaN is False)
RECURSIVE Filtro(_, _, _, _)
Filtro(t, inst, med, cid) ==
    IF t = <<>> THEN <<>>
    ELSE IF /\ Head(t).origem_tratada = inst
            /\ Head(t).tecnologia_principio = med
            /\ Head(t).cid_simplificado # NoCid
            /\ Head(t).cid_simplificado = cid
         THEN <<Head(t)>> \o Filtro(Tail(t), inst, med, cid)
         ELSE Filtro(Tail(t), inst, med, cid)

\* the threshold test of gerar_base_controle
PassaLimite(qtd_total) == qtd_total > LimiteBase

\* one result row of gerar_base_controle
ResultadoBase(filtro, inst, med, cid) ==
    [Orgao |-> inst, Tecnologia |-> med, CID |-> cid,
     NPareceres |-> NRows(filtro),
     Favoravel |-> Round3Pct(NRows(Where(filtro, "selConclusao", {"F"})), NRows(filtro)),
     NaoFavoravel |-> Round3Pct(NRows(Where(filtro, "selConclusao", {"N"})), NRows(filtro))]

RECURSIVE LoopCids(_, _, _, _)
LoopCids(t, inst, med, cids) ==
    IF cids = <<>> THEN <<>>
    ELSE LET filtro == Filtro(t, inst, med, Head(cids))
         IN (IF PassaLimite(NRows(filtro))
             THEN <<ResultadoBase(filtro, inst, med, Head(cids))>>
             ELSE <<>>) \o LoopCids(t, inst, med, Tail(cids))

RECURSIVE LoopMeds(_, _, _)
LoopMeds(t, inst, meds) ==
    IF meds = <<>> THEN <<>>
    ELSE LET doMed == Where(Where(t, "origem_tratada", {inst}),
                            "tecnologia_principio", {Head(meds)})
         IN LoopCids(t, inst, Head(meds), Unique(doMed, "cid_simplificado"))
            \o LoopMeds(t, inst, Tail(meds))

RECURSIVE LoopInsts(_, _)
LoopInsts(t, insts) ==
    IF insts = <<>> THEN <<>>
    ELSE LoopMeds(t, Head(insts),
                  Unique(Where(t, "origem_tratada", {Head(insts)}), "tecnologia_principio"))
         \o LoopInsts(t, Tail(insts))

gerar_base_controle(t) == LoopInsts(t, Unique(t, "origem_tratada"))

\* main(): the bases de controle the script can produce from a loaded table
BasesDeControleDe(t) ==
    {gerar_base_controle(
         filtrar_combinacoes_relevantes(preparar_dados_medicamentos(t), l, MinObservacoesMed)) :
       l \in TopInstLists(preparar_dados_medicamentos(t), TopInst)}

(***************************************************************************)
(* Inputs of the medicine pipeline                                         *)
(***************************************************************************)
InstsMed == {"SP", "MG", NaoPreenchido}

\* (txtCid, txtDcb) of a row: "E11.9"/"A' B" and "X E11"/"ab" are the same
\* combination after the conversions, "e11"/"c" has no cid
TextosMed == {<<<<"E", "1", "1", ".", "9">>, <<"A'", " ", "B">>>>,
              <<<<"X", " ", "E", "1", "1">>, <<"a", "b">>>>,
              <<<<"e", "1", "1">>, <<"c">>>>}

Conclusoes == {"F", "N", NaoPreenchido}

RunsMed == {[origem_tratada |-> i, txtCid |-> x[1], txtDcb |-> x[2],
             selConclusao |-> c, mult |-> m] :
               i \in InstsMed, x \in TextosMed, c \in Conclusoes, m \in MultsMed}

Vazio == <<>>

SemChamada == [funcao |-> "nenhuma"]

SemLimites == [raised |-> FALSE, inferior |-> 0, superior |-> 0]

\* the variables of the other scripts, before they run
MedParado == df_controle = Vazio /\ df_resultados = Vazio

RegParado ==
    /\ df_filtrado = Vazio
    /\ df_taxas = Vazio
    /\ df_subconjuntos = Vazio
    /\ resultados = Vazio
    /\ barras = Vazio

\* no exit status yet
SemStatus == 0 - 1

\* the driver, not started
DriverParado ==
    /\ arquivos = [base |-> TRUE, controle |-> FALSE, scripts |-> {}]
    /\ numero = 0
    /\ scripts_sucesso = 0
    /\ scripts_falha = 0
    /\ historico = <<>>
    /\ exit_status = SemStatus

RankParado ==
    /\ df_base = Vazio
    /\ df_difs = Vazio
    /\ df_comparacao = Vazio
    /\ df_maiores_ganhos = Vazio
    /\ df_quadro = Vazio

InitMed ==
    /\ pc = "med_carregada"
    /\ erro = ""
    /\ chamada = SemChamada
    /\ df \in BoundedSeq(RunsMed, MaxRuns)
    /\ df_prep = Vazio
    /\ lista_inst = Vazio
    /\ MedParado
    /\ RegParado
    /\ RankParado
    /\ DriverParado
    /\ limites = SemLimites

\* main(): df_prep = preparar_dados_medicamentos(df)
PrepararDadosMedicamentos ==
    /\ pc = "med_carregada"
    /\ df_prep' = preparar_dados_medicamentos(df)
    /\ pc' = "med_preparada"
    /\ UNCHANGED <<erro, chamada, df, lista_inst, varsMed, varsReg, limites, varsRank, varsDriver>>

\* main(): df_controle = filtrar_combinacoes_relevantes(df_prep, min_observacoes=10)
FiltrarCombinacoesRelevantes ==
    /\ pc = "med_preparada"
    /\ \E lista \in TopInstLists(df_prep, TopInst) :
          /\ lista_inst' = lista
          /\ df_controle' = filtrar_combinacoes_relevantes(df_prep, lista, MinObservacoesMed)
    /\ pc' = "med_filtrada"
    /\ UNCHANGED <<erro, chamada, df, df_prep, df_resultados, varsReg, limites, varsRank, varsDriver>>

\* main(): df_resultados = gerar_base_controle(df_controle, pasta_output)
GerarBaseControle ==
    /\ pc = "med_filtrada"
    /\ df_resultados' = gerar_base_controle(df_controle)
    /\ pc' = "med_base_gerada"
    /\ UNCHANGED <<erro, chamada, df, df_prep, lista_inst, df_controle, varsReg, limites, varsRank, varsDriver>>

NextMed ==
    \/ PrepararDadosMedicamentos
    \/ FiltrarCombinacoesRelevantes
    \/ GerarBaseControle

SpecMed == InitMed /\ [][NextMed]_vars

\* records of two institutions with a conclusion 'F' or 'N', in runs of 10 and of 11
RunsBase == {r \in RunsMed : /\ r.origem_tratada # NaoPreenchido
                             /\ r.selConclusao \in ConclusoesValidas
                             /\ r.mult \in {LimiteBase, LimiteBase + 1}}

\* a call gerar_base_controle(df_controle) on a prepared table, rows without a cid
\* included
InitBase ==
    /\ pc = "base_chamada"
    /\ erro = ""
    /\ chamada = [funcao |-> "gerar_base_controle"]
    /\ df = Vazio
    /\ df_prep = Vazio
    /\ lista_inst = Vazio
    /\ df_controle \in {preparar_dados_medicamentos(d) : d \in BoundedSeq(RunsBase, MaxRuns)}
    /\ df_resultados = Vazio
    /\ RegParado
    /\ RankParado
    /\ DriverParado
    /\ limites = SemLimites

ChamarGerarBaseControle ==
    /\ pc = "base_chamada"
    /\ df_resultados' = gerar_base_controle(df_controle)
    /\ pc' = "base_retornou"
    /\ UNCHANGED <<erro, chamada, df, df_prep, lista_inst, df_controle, varsReg, limites,
                   varsRank, varsDriver>>

NextBase == ChamarGerarBaseControle

SpecBase == InitBase /\ [][NextBase]_vars

(***************************************************************************)
(* utils.py: intervalo_confianca_proporcao                                 *)
(*                                                                         *)
(* A float proportion is a fixed-point integer in units of 1/Scale; z is   *)
(* in hundredths (196 = 1.96).  A proportion stored in a result row is the *)
(* exact fraction <<numerator, denominator>> in lowest terms, so that two  *)
(* rows have equal proportions exactly when the floats are equal.          *)
(***************************************************************************)
Scale == 10000

ZPadrao == 196

RECURSIVE ISqrtIn(_, _, _)
ISqrtIn(x, lo, hi) ==
    IF lo >= hi THEN lo
    ELSE LET mid == (lo + hi + 1) \div 2
         IN IF mid * mid <= x THEN ISqrtIn(x, mid, hi) ELSE ISqrtIn(x, lo, mid - 1)

\* math.sqrt on fixed-point values: x is in units of 1/Scale^2, the result in 1/Scale
ISqrt(x) == ISqrtIn(x, 0, Scale)

\* margem_erro = z * erro_padrao
MargemErro(z, erro_padrao) == (z * erro_padrao) \div 100

\* the interval without the branch for n = 0: the division by n raises
intervalo_sem_guarda(p, n, z) ==
    IF n = 0 \/ p * (Scale - p) < 0
    THEN [raised |-> TRUE, inferior |-> 0, superior |-> 0]
    ELSE [raised |-> FALSE,
          inferior |-> p - MargemErro(z, ISqrt((p * (Scale - p)) \div n)),
          superior |-> p + MargemErro(z, ISqrt((p * (Scale - p)) \div n))]

\* the interval with the margin added below and subtracted above
intervalo_limites_trocados(p, n, z) ==
    IF n > 0 /\ p * (Scale - p) >= 0
    THEN [raised |-> FALSE,
          inferior |-> p + MargemErro(z, ISqrt((p * (Scale - p)) \div n)),
          superior |-> p - MargemErro(z, ISqrt((p * (Scale - p)) \div n))]
    ELSE [raised |-> n > 0, inferior |-> 0, superior |-> 0]

\* the interval with its bounds brought back into [0, 1]
intervalo_com_limites_em_01(p, n, z) ==
    IF n > 0
    THEN IF p * (Scale - p) < 0
         THEN [raised |-> TRUE, inferior |-> 0, superior |-> 0]
         ELSE LET margem_erro == MargemErro(z, ISqrt((p * (Scale - p)) \div n))
              IN [raised |-> FALSE,
                  inferior |-> IF p - margem_erro < 0 THEN 0 ELSE p - margem_erro,
                  superior |-> IF p + margem_erro > Scale THEN Scale ELSE p + margem_erro]
    ELSE [raised |-> FALSE, inferior |-> 0, superior |-> 0]

\* math.sqrt raises ValueError on a negative argument (p outside [0, 1])
intervalo_confianca_proporcao(p, n, z) ==
    IF n > 0
    THEN IF p * (Scale - p) < 0
         THEN [raised |-> TRUE, inferior |-> 0, superior |-> 0]
         ELSE LET erro_padrao == ISqrt((p * (Scale - p)) \div n)
                  margem_erro == MargemErro(z, erro_padrao)
              IN [raised |-> FALSE,
                  inferior |-> p - margem_erro,
                  superior |-> p + margem_erro]
    ELSE [raised |-> FALSE, inferior |-> 0, superior |-> 0]

RECURSIVE GCD(_, _)
GCD(a, b) == IF b = 0 THEN a ELSE GCD(b, a % b)

\* the float a / b, as a fraction in lowest terms
Fracao(a, b) == <<a \div GCD(a, b), b \div GCD(a, b)>>

\* the fixed-point value of a fraction
EmFixo(f) == (f[1] * Scale) \div f[2]

FracaoMenor(f, g) == f[1] * g[2] < g[1] * f[2]

\* proporcao_favoravel = favoravel_count / qtd_total if qtd_total > 0 else 0
ProporcaoFavoravel(favoravel_count, qtd_total) ==
    IF qtd_total > 0 THEN Fracao(favoravel_count, qtd_total) ELSE <<0, 1>>

(***************************************************************************)
(* utils.py: processar_subconjunto                                         *)
(***************************************************************************)
\* the rows of one institution, whatever the sub-filter
subset_sem_filtro(t, inst, coluna, valor_filtro, geral) ==
    Where(t, "origem_tratada", {inst})

\* the rows of one institution, restricted to coluna = valor_filtro unless geral
Subset(t, inst, coluna, valor_filtro, geral) ==
    IF geral
    THEN Where(t, "origem_tratada", {inst})
    ELSE Where(Where(t, "origem_tratada", {inst}), coluna, {valor_filtro})

\* the count of the rows whose conclusion is 'N'
nao_favoravel_count(subset) == NRows(Where(subset, "selConclusao", {"N"}))

\* favoravel_count = subset[subset['selConclusao'] == 'F'].shape[0]
FavoravelCount(subset) == NRows(Where(subset, "selConclusao", {"F"}))

\* the test of calcular_taxas_concessao in place of the threshold
AtingeMinimoSoNaoVazio(qtd_total, min_observacoes) == qtd_total > 0

\* the threshold test of processar_subconjunto
AtingeMinimo(qtd_total, min_observacoes) == qtd_total >= min_observacoes

\* the dictionary appended for one institution
LinhaSubconjunto(subset, inst, coluna, geral) ==
    LET qtd_total == NRows(subset)
        proporcao_favoravel == ProporcaoFavoravel(FavoravelCount(subset), qtd_total)
        ic == intervalo_confianca_proporcao(EmFixo(proporcao_favoravel), qtd_total, ZPadrao)
    IN [Coluna |-> IF geral THEN "Geral" ELSE coluna,
        Orgao |-> inst,
        NPareceres |-> qtd_total,
        Proporcao |-> proporcao_favoravel,
        ICInferior |-> ic.inferior,
        ICSuperior |-> ic.superior]

RECURSIVE LoopSubconjunto(_, _, _, _, _, _)
LoopSubconjunto(t, insts, coluna, valor_filtro, min_observacoes, geral) ==
    IF insts = <<>> THEN <<>>
    ELSE LET subset == Subset(t, Head(insts), coluna, valor_filtro, geral)
         IN (IF AtingeMinimo(NRows(subset), min_observacoes)
             THEN <<LinhaSubconjunto(subset, Head(insts), coluna, geral)>>
             ELSE <<>>)
            \o LoopSubconjunto(t, Tail(insts), coluna, valor_filtro, min_observacoes, geral)

processar_subconjunto(t, coluna, valor_filtro, min_observacoes, geral) ==
    LoopSubconjunto(t, Unique(t, "origem_tratada"), coluna, valor_filtro,
                    min_observacoes, geral)

(***************************************************************************)
(* 2 Divergencia geral/analise_diferencas_regionais.py                     *)
(***************************************************************************)
\* df_prep[df_prep['selConclusao'].isin(['F', 'N'])]
preparar_dados_divergencia(t) == Where(t, "selConclusao", ConclusoesValidas)

\* DataFrame.sort_values by 'Proporção Favorável': every ordering of the rows that
\* is sorted; the order among equal keys is not fixed (quicksort)
RECURSIVE OrdenacoesDe(_, _, _)
OrdenacoesDe(rows, idx, ascending) ==
    IF idx = {} THEN {<<>>}
    ELSE LET primeiros ==
                 {i \in idx : \A j \in idx :
                     IF ascending
                     THEN ~FracaoMenor(rows[j].Proporcao, rows[i].Proporcao)
                     ELSE ~FracaoMenor(rows[i].Proporcao, rows[j].Proporcao)}
         IN UNION {{<<rows[i]>> \o resto :
                       resto \in OrdenacoesDe(rows, idx \ {i}, ascending)} :
                   i \in primeiros}

sort_values(rows, ascending) == OrdenacoesDe(rows, DOMAIN rows, ascending)

\* the bars of plt.bar(df_sucesso['Órgão de ATS'], df_sucesso['Proporção Favorável'] * 100)
Barras(rows) ==
    [i \in DOMAIN rows |->
        [Orgao |-> rows[i].Orgao,
         altura |-> Fracao(rows[i].Proporcao[1] * 100, rows[i].Proporcao[2])]]

\* the bars drawn in the order of the rows received
grafico_sem_ordenar(df_sucesso) == {Barras(df_sucesso)}

\* grafico_barras_sucesso: the bars it can draw, after sort_values(by='Proporção Favorável')
grafico_barras_sucesso(df_sucesso) == {Barras(o) : o \in sort_values(df_sucesso, TRUE)}

\* round-half-even of x / 10: ((IC Superior - IC Inferior) / 2).round(3) * 100,
\* from units of 1/Scale to tenths of a percent
Round3Fixo(x) ==
    LET q == x \div 10
        r == x % 10
    IN IF 2 * r < 10 THEN q
       ELSE IF 2 * r > 10 THEN q + 1
       ELSE IF q % 2 = 0 THEN q ELSE q + 1

RECURSIVE ComMargem(_)
ComMargem(rows) ==
    IF rows = <<>> THEN <<>>
    ELSE <<[Coluna |-> Head(rows).Coluna,
            Orgao |-> Head(rows).Orgao,
            NPareceres |-> Head(rows).NPareceres,
            Proporcao |-> Head(rows).Proporcao,
            ICInferior |-> Head(rows).ICInferior,
            ICSuperior |-> Head(rows).ICSuperior,
            margem_de_erro |->
                Round3Fixo((Head(rows).ICSuperior - Head(rows).ICInferior) \div 2)]>>
         \o ComMargem(Tail(rows))

\* the loop of calcular_taxas_concessao over lista_inst
RECURSIVE LoopTaxas(_, _)
LoopTaxas(t, insts) ==
    IF insts = <<>> THEN <<>>
    ELSE LET inst_data == Where(t, "origem_tratada", {Head(insts)})
         IN (IF NRows(inst_data) > 0
             THEN <<LinhaSubconjunto(inst_data, Head(insts), "origem_tratada", TRUE)>>
             ELSE <<>>) \o LoopTaxas(t, Tail(insts))

\* the filters of calcular_taxas_subconjuntos, in the order of the zip
ColunasFiltro == <<"selIndicacaoConformidade", "selPrevistoProtocolo",
                   "selDisponivelSus", "selRecomendacaoConitec">>

ValoresFiltro == <<"N", "N", "N", "D">>

\* the literal min_observacoes of calcular_taxas_subconjuntos
MinObservacoesSub == 100

RECURSIVE LoopFiltros(_, _)
LoopFiltros(t, i) ==
    IF i > Len(ColunasFiltro) THEN <<>>
    ELSE processar_subconjunto(t, ColunasFiltro[i], ValoresFiltro[i],
                               MinObservacoesSub, FALSE)
         \o LoopFiltros(t, i + 1)

\* resultados_finais of calcular_taxas_subconjuntos, before it is sorted
ResultadosFinais(t) ==
    LoopFiltros(t, 1) \o processar_subconjunto(t, "origem_tratada", "", MinObservacoesSub, TRUE)

\* main(): the tables taxas_concessao the script can produce from a loaded table
TaxasDe(t) ==
    UNION {{ComMargem(o) :
              o \in sort_values(
                       LoopTaxas(Where(preparar_dados_divergencia(t), "origem_tratada", Range(l)), l),
                       TRUE)} :
           l \in TopInstLists(preparar_dados_divergencia(t), TopInst)}

\* main(): the tables taxas_concessao_subconjuntos it can produce from a loaded table
SubconjuntosDe(t) ==
    UNION {{ComMargem(o) :
              o \in sort_values(
                       ResultadosFinais(Where(preparar_dados_divergencia(t),
                                              "origem_tratada", Range(l))),
                       FALSE)} :
           l \in TopInstLists(preparar_dados_divergencia(t), TopInst)}

(***************************************************************************)
(* Inputs of the regional pipeline                                         *)
(***************************************************************************)
InstsReg == {"SP", "MG", NaoPreenchido}

MultsReg == {60, 90}

\* the four filter columns of a row
FlagsReg == {<<"N", "S", "S", "D">>, <<"S", "N", "S", "R">>}

RunsReg == {[origem_tratada |-> i,
             selIndicacaoConformidade |-> f[1],
             selPrevistoProtocolo |-> f[2],
             selDisponivelSus |-> f[3],
             selRecomendacaoConitec |-> f[4],
             selConclusao |-> c,
             mult |-> m] : i \in InstsReg, f \in FlagsReg, c \in Conclusoes, m \in MultsReg}

InitReg ==
    /\ pc = "reg_carregada"
    /\ erro = ""
    /\ chamada = SemChamada
    /\ df \in BoundedSeq(RunsReg, MaxRuns)
    /\ df_prep = Vazio
    /\ lista_inst = Vazio
    /\ MedParado
    /\ RegParado
    /\ RankParado
    /\ DriverParado
    /\ limites = SemLimites

\* main(): df_prep = preparar_dados_divergencia(df)
PrepararDadosDivergencia ==
    /\ pc = "reg_carregada"
    /\ df_prep' = preparar_dados_divergencia(df)
    /\ pc' = "reg_preparada"
    /\ UNCHANGED <<erro, chamada, df, lista_inst, varsMed, varsReg, limites, varsRank, varsDriver>>

\* main(): lista_inst = ...head(24).index.tolist(); df_filtrado = ...isin(lista_inst)
SelecionarInstituicoes ==
    /\ pc = "reg_preparada"
    /\ \E lista \in TopInstLists(df_prep, TopInst) :
          /\ lista_inst' = lista
          /\ df_filtrado' = Where(df_prep, "origem_tratada", Range(lista))
    /\ pc' = "reg_filtrada"
    /\ UNCHANGED <<erro, chamada, df, df_prep, varsMed, df_taxas, df_subconjuntos,
                   resultados, barras, limites, varsRank, varsDriver>>

\* main(): df_taxas = calcular_taxas_concessao(df_filtrado, lista_inst, pasta_output);
\* sort_values on the frame of an empty list raises KeyError (it has no columns)
CalcularTaxasConcessao ==
    /\ pc = "reg_filtrada"
    /\ LET linhas == LoopTaxas(df_filtrado, lista_inst)
       IN IF linhas = <<>>
          THEN /\ erro' = "KeyError"
               /\ pc' = "reg_falhou"
               /\ UNCHANGED df_taxas
          ELSE /\ \E ordenado \in sort_values(linhas, TRUE) :
                     df_taxas' = ComMargem(ordenado)
               /\ pc' = "reg_taxas"
               /\ UNCHANGED erro
    /\ UNCHANGED <<chamada, df, df_prep, lista_inst, varsMed, df_filtrado,
                   df_subconjuntos, resultados, barras, limites, varsRank, varsDriver>>

\* main(): df_subconjuntos = calcular_taxas_subconjuntos(df_filtrado, pasta_output)
CalcularTaxasSubconjuntos ==
    /\ pc = "reg_taxas"
    /\ LET linhas == ResultadosFinais(df_filtrado)
       IN IF linhas = <<>>
          THEN /\ erro' = "KeyError"
               /\ pc' = "reg_falhou"
               /\ UNCHANGED df_subconjuntos
          ELSE /\ \E ordenado \in sort_values(linhas, FALSE) :
                     df_subconjuntos' = ComMargem(ordenado)
               /\ pc' = "reg_subconjuntos"
               /\ UNCHANGED erro
    /\ UNCHANGED <<chamada, df, df_prep, lista_inst, varsMed, df_filtrado,
                   df_taxas, resultados, barras, limites, varsRank, varsDriver>>

\* the arguments a direct call of processar_subconjunto is given
MinObservacoesVals == {0, 100}

ChamadasProcessar ==
    {[funcao |-> "processar_subconjunto", coluna |-> ColunasFiltro[i],
      valor_filtro |-> ValoresFiltro[i], min_observacoes |-> m, geral |-> g] :
        i \in {1, 2}, m \in MinObservacoesVals, g \in BOOLEAN}

\* a call processar_subconjunto(df_filtrado, coluna, valor_filtro, min_observacoes, geral)
ChamarProcessarSubconjunto ==
    /\ pc = "reg_filtrada"
    /\ \E c \in ChamadasProcessar :
          /\ chamada' = c
          /\ resultados' = processar_subconjunto(df_filtrado, c.coluna, c.valor_filtro,
                                                 c.min_observacoes, c.geral)
    /\ pc' = "reg_processado"
    /\ UNCHANGED <<erro, df, df_prep, lista_inst, varsMed, df_filtrado, df_taxas,
                   df_subconjuntos, barras, limites, varsRank, varsDriver>>

\* the orders the rows of a table can be given in
Permutacoes(rows) ==
    {[i \in DOMAIN rows |-> rows[f[i]]] :
        f \in {g \in [DOMAIN rows -> DOMAIN rows] :
                  \A a, b \in DOMAIN rows : a # b => g[a] # g[b]}}

\* a call grafico_barras_sucesso(df_sucesso) on the rows of df_taxas in some order;
\* gerar_graficos_taxas passes df_taxas itself
ChamarGraficoBarrasSucesso ==
    /\ pc = "reg_taxas"
    /\ \E df_sucesso \in Permutacoes(df_taxas) :
          /\ chamada' = [funcao |-> "grafico_barras_sucesso", df_sucesso |-> df_sucesso]
          /\ barras' \in grafico_barras_sucesso(df_sucesso)
    /\ pc' = "reg_grafico"
    /\ UNCHANGED <<erro, df, df_prep, lista_inst, varsMed, df_filtrado, df_taxas,
                   df_subconjuntos, resultados, limites, varsRank, varsDriver>>

NextReg ==
    \/ PrepararDadosDivergencia
    \/ SelecionarInstituicoes
    \/ CalcularTaxasConcessao
    \/ CalcularTaxasSubconjuntos
    \/ ChamarProcessarSubconjunto
    \/ ChamarGraficoBarrasSucesso

SpecReg == InitReg /\ [][NextReg]_vars

\* tables whose institutions reach the 100 records of calcular_taxas_subconjuntos
\* inside a sub-filter
RunsSub == {[origem_tratada |-> i,
             selIndicacaoConformidade |-> f[1],
             selPrevistoProtocolo |-> f[2],
             selDisponivelSus |-> f[3],
             selRecomendacaoConitec |-> f[4],
             selConclusao |-> c,
             mult |-> m] :
               i \in {"SP", "MG"}, f \in FlagsReg, c \in ConclusoesValidas,
               m \in {60, MinObservacoesSub}}

InitSubconjuntos ==
    /\ pc = "reg_carregada"
    /\ erro = ""
    /\ chamada = SemChamada
    /\ df \in BoundedSeq(RunsSub, MaxRuns)
    /\ df_prep = Vazio
    /\ lista_inst = Vazio
    /\ MedParado
    /\ RegParado
    /\ RankParado
    /\ DriverParado
    /\ limites = SemLimites

SpecSubconjuntos == InitSubconjuntos /\ [][NextReg]_vars

(***************************************************************************)
(* Calls of the proportion estimator on its own                            *)
(***************************************************************************)
MaxN == 12

\* proportions of a direct call; some lie outside [0, 1]
PDiretos == {0 - 5000, 0, 2500, 5000, 9000, 10000, 15000}

ZVals == {164, 196, 258}

ChamadasIntervalo ==
    [funcao : {"intervalo_confianca_proporcao"}, p : PDiretos, n : 0..MaxN, z : ZVals]

\* the counts of one group of processar_subconjunto
ChamadasEstimativa ==
    {c \in [funcao : {"estimativa"}, favoravel_count : 0..MaxN, qtd_total : 0..MaxN] :
        c.favoravel_count <= c.qtd_total}

InitIC ==
    /\ pc = "ic_chamada"
    /\ erro = ""
    /\ chamada \in ChamadasIntervalo \cup ChamadasEstimativa
    /\ df = Vazio
    /\ df_prep = Vazio
    /\ lista_inst = Vazio
    /\ MedParado
    /\ RegParado
    /\ RankParado
    /\ DriverParado
    /\ limites = SemLimites

\* a call intervalo_confianca_proporcao(p, n, z)
ChamarIntervalo ==
    /\ pc = "ic_chamada"
    /\ chamada.funcao = "intervalo_confianca_proporcao"
    /\ limites' = intervalo_confianca_proporcao(chamada.p, chamada.n, chamada.z)
    /\ erro' = IF limites'.raised THEN "ValueError" ELSE ""
    /\ pc' = "ic_retornou"
    /\ UNCHANGED <<chamada, df, df_prep, lista_inst, varsMed, varsReg, varsRank, varsDriver>>

\* processar_subconjunto, from the counts of a group to its interval:
\* proporcao_favoravel = favoravel_count / qtd_total if qtd_total > 0 else 0, then
\* intervalo_confianca_proporcao(proporcao_favoravel, qtd_total)
EstimarGrupo ==
    /\ pc = "ic_chamada"
    /\ chamada.funcao = "estimativa"
    /\ limites' = intervalo_confianca_proporcao(
                      EmFixo(ProporcaoFavoravel(chamada.favoravel_count, chamada.qtd_total)),
                      chamada.qtd_total, ZPadrao)
    /\ erro' = IF limites'.raised THEN "ValueError" ELSE ""
    /\ pc' = "ic_estimado"
    /\ UNCHANGED <<chamada, df, df_prep, lista_inst, varsMed, varsReg, varsRank, varsDriver>>

NextIC ==
    \/ ChamarIntervalo
    \/ EstimarGrupo

SpecIC == InitIC /\ [][NextIC]_vars

(***************************************************************************)
(* The two rate pipelines together                                         *)
(***************************************************************************)
InitAgg == InitMed \/ InitReg

NextAgg == NextMed \/ NextReg

SpecAgg == InitAgg /\ [][NextAgg]_vars

(***************************************************************************)
(* 3 Divergencia por medicamentos/analise_diferencas_medicamentos.py        *)
(*                                                                         *)
(* A text made by "/".join(...) is the sequence of the joined items.       *)
(***************************************************************************)
\* the characters of the keys, in code-point order
Alfabeto == <<"0", "1", "2", "3", "4", "5", "6", "7", "8", "9",
              "A", "B", "C", "D", "E", "F", "G", "H", "I", "J", "K", "L", "M",
              "N", "O", "P", "Q", "R", "S", "T", "U", "V", "W", "X", "Y", "Z",
              "a", "b", "c", "d", "e", "f", "g", "h", "i", "j", "k", "l", "m",
              "n", "o", "p", "q", "r", "s", "t", "u", "v", "w", "x", "y", "z">>

Ord(c) == CHOOSE i \in DOMAIN Alfabeto : Alfabeto[i] = c

\* a < b for two texts (the order groupby sorts its keys in)
RECURSIVE TextoMenor(_, _)
TextoMenor(a, b) ==
    IF b = <<>> THEN FALSE
    ELSE IF a = <<>> THEN TRUE
    ELSE IF Head(a) # Head(b) THEN Ord(Head(a)) < Ord(Head(b))
    ELSE TextoMenor(Tail(a), Tail(b))

\* order of the (Tecnologia, CID) keys
ChaveMenor(k1, k2) ==
    \/ TextoMenor(k1[1], k2[1])
    \/ k1[1] = k2[1] /\ TextoMenor(k1[2], k2[2])

ChavesTecCid(t) == {<<t[i].Tecnologia, t[i].CID>> : i \in DOMAIN t}

\* the keys of a groupby(['Tecnologia', 'CID']), sorted
RECURSIVE ChavesOrdenadas(_)
ChavesOrdenadas(K) ==
    IF K = {} THEN <<>>
    ELSE LET m == CHOOSE k \in K : \A o \in K \ {k} : ChaveMenor(k, o)
         IN <<m>> \o ChavesOrdenadas(K \ {m})

\* the rows of one (Tecnologia, CID) group, in table order
RECURSIVE Grupo(_, _)
Grupo(t, key) ==
    IF t = <<>> THEN <<>>
    ELSE IF Head(t).Tecnologia = key[1] /\ Head(t).CID = key[2]
         THEN <<Head(t)>> \o Grupo(Tail(t), key)
         ELSE Grupo(Tail(t), key)

\* the base with the rows of Nacional left in
com_nacional(t) == t

\* df_base[df_base['Órgão de ATS'] != 'Nacional']
RECURSIVE SemNacional(_)
SemNacional(t) ==
    IF t = <<>> THEN <<>>
    ELSE IF Head(t).Orgao # "Nacional"
         THEN <<Head(t)>> \o SemNacional(Tail(t))
         ELSE SemNacional(Tail(t))

\* df_filtrado[df_filtrado['Nº de pareceres'] >= min_pareceres]
RECURSIVE ComMinPareceres(_, _)
ComMinPareceres(t, min_pareceres) ==
    IF t = <<>> THEN <<>>
    ELSE IF Head(t).NPareceres >= min_pareceres
         THEN <<Head(t)>> \o ComMinPareceres(Tail(t), min_pareceres)
         ELSE ComMinPareceres(Tail(t), min_pareceres)

\* the literal of `tecnologias_validas >= 2`
MinInstituicoes == 2

\* every group kept, whatever the number of its institutions
tecnologias_sem_minimo(t) == ChavesTecCid(t)

\* groupby(['Tecnologia', 'CID'])['Órgão de ATS'].nunique() >= 2
tecnologias_validas(t) ==
    {key \in ChavesTecCid(t) :
        Cardinality({Grupo(t, key)[i].Orgao : i \in DOMAIN Grupo(t, key)}) >= MinInstituicoes}

\* df_filtrado.loc[df_filtrado.index.isin(tecnologias_validas)]
RECURSIVE ComChaveEm(_, _)
ComChaveEm(t, K) ==
    IF t = <<>> THEN <<>>
    ELSE IF <<Head(t).Tecnologia, Head(t).CID>> \in K
         THEN <<Head(t)>> \o ComChaveEm(Tail(t), K)
         ELSE ComChaveEm(Tail(t), K)

SeqMax(S) == CHOOSE m \in S : \A o \in S : o <= m

SeqMin(S) == CHOOSE m \in S : \A o \in S : m <= o

Favoraveis(grupo) == {grupo[i].Favoravel : i \in DOMAIN grupo}

\* grupo[grupo['Favorável'] == valor]
RECURSIVE ComFavoravel(_, _)
ComFavoravel(grupo, valor) ==
    IF grupo = <<>> THEN <<>>
    ELSE IF Head(grupo).Favoravel = valor
         THEN <<Head(grupo)>> \o ComFavoravel(Tail(grupo), valor)
         ELSE ComFavoravel(Tail(grupo), valor)

Coluna(rows, col) == [i \in DOMAIN rows |-> rows[i][col]]

\* the institution of the first extreme row only
orgaos_so_o_primeiro(extremos) == <<extremos[1].Orgao>>

\* orgao_max / orgao_min: "/".join of the institutions on a tie, else the single one
orgaos_do_extremo(extremos) ==
    IF Len(extremos) > 1
    THEN Coluna(extremos, "Orgao")
    ELSE <<extremos[1].Orgao>>

\* num_max / num_min
nums_do_extremo(extremos) ==
    IF Len(extremos) > 1
    THEN Coluna(extremos, "NPareceres")
    ELSE <<extremos[1].NPareceres>>

\* the difference taken the other way round
diferenca_invertida(valor_max, valor_min) == valor_min - valor_max

\* valor_max - valor_min
diferenca(valor_max, valor_min) == valor_max - valor_min

\* the dictionary appended for one (tecnologia, cid) group
LinhaDiferenca(grupo, key) ==
    LET max_fav == ComFavoravel(grupo, SeqMax(Favoraveis(grupo)))
        min_fav == ComFavoravel(grupo, SeqMin(Favoraveis(grupo)))
    IN [Tecnologia |-> key[1],
        CID |-> key[2],
        TotalPareceres |-> SeqSum(Coluna(grupo, "NPareceres")),
        OrgaoMax |-> orgaos_do_extremo(max_fav),
        NumMax |-> nums_do_extremo(max_fav),
        ValorMax |-> max_fav[1].Favoravel,
        OrgaoMin |-> orgaos_do_extremo(min_fav),
        NumMin |-> nums_do_extremo(min_fav),
        ValorMin |-> min_fav[1].Favoravel,
        Diferenca |-> diferenca(max_fav[1].Favoravel, min_fav[1].Favoravel)]

RECURSIVE LoopGrupos(_, _)
LoopGrupos(t, keys) ==
    IF keys = <<>> THEN <<>>
    ELSE <<LinhaDiferenca(Grupo(t, Head(keys)), Head(keys))>> \o LoopGrupos(t, Tail(keys))

\* the rows left after all the filters of analisar_diferencas_entre_instituicoes
FiltradoFinal(t, min_pareceres) ==
    LET filtrado == ComMinPareceres(SemNacional(t), min_pareceres)
    IN ComChaveEm(filtrado, tecnologias_validas(filtrado))

\* resultados of analisar_diferencas_entre_instituicoes
ResultadosDiferencas(t, min_pareceres) ==
    LET final == FiltradoFinal(t, min_pareceres)
    IN LoopGrupos(final, ChavesOrdenadas(ChavesTecCid(final)))

\* the counts logged after the analysis: spread == 100, >= 80, >= 50, >= 20 and
\* len(df_difs), spreads being in tenths of a percent
EstatisticasDeDivergencia(rows) ==
    [dif_100 |-> Cardinality({i \in DOMAIN rows : rows[i].Diferenca = 1000}),
     dif_80 |-> Cardinality({i \in DOMAIN rows : rows[i].Diferenca >= 800}),
     dif_50 |-> Cardinality({i \in DOMAIN rows : rows[i].Diferenca >= 500}),
     dif_20 |-> Cardinality({i \in DOMAIN rows : rows[i].Diferenca >= 200}),
     total |-> Len(rows)]

\* df_difs[df_difs['Diferença ...'] == 100]
RECURSIVE ComDiferenca100(_)
ComDiferenca100(rows) ==
    IF rows = <<>> THEN <<>>
    ELSE IF Head(rows).Diferenca = 1000
         THEN <<Head(rows)>> \o ComDiferenca100(Tail(rows))
         ELSE ComDiferenca100(Tail(rows))

\* f"{orgaos} ({valor:.0f}%)": the institutions followed by the rate without decimals
ComPercentual(orgaos, valor) == [orgaos |-> orgaos, percentual |-> <<Round3Fixo(valor)>>]

\* the institutions alone
SemPercentual(orgaos) == [orgaos |-> orgaos, percentual |-> <<>>]

\* the row of the quadro for one row of df_100
LinhaQuadro(row) ==
    IF row.ValorMax = 1000 /\ row.ValorMin = 0
    THEN [Principio |-> row.Tecnologia, CID |-> row.CID,
          SempreConcede |-> SemPercentual(row.OrgaoMax),
          NuncaConcede |-> SemPercentual(row.OrgaoMin)]
    ELSE [Principio |-> row.Tecnologia, CID |-> row.CID,
          SempreConcede |-> ComPercentual(row.OrgaoMax, row.ValorMax),
          NuncaConcede |-> ComPercentual(row.OrgaoMin, row.ValorMin)]

\* the quadro with every row written by the branch that adds the percentages
quadro_sempre_formatado(rows) ==
    [i \in DOMAIN ComDiferenca100(rows) |->
        [Principio |-> ComDiferenca100(rows)[i].Tecnologia,
         CID |-> ComDiferenca100(rows)[i].CID,
         SempreConcede |-> ComPercentual(ComDiferenca100(rows)[i].OrgaoMax,
                                         ComDiferenca100(rows)[i].ValorMax),
         NuncaConcede |-> ComPercentual(ComDiferenca100(rows)[i].OrgaoMin,
                                        ComDiferenca100(rows)[i].ValorMin)]]

\* gerar_quadro_divergencias_maximas: an empty frame when no spread is 100
gerar_quadro_divergencias_maximas(rows) ==
    [i \in DOMAIN ComDiferenca100(rows) |-> LinhaQuadro(ComDiferenca100(rows)[i])]

\* the strict comparison replaced by >=
melhor_com_empate_nacional(nacional_taxa, inst_taxa, inst) ==
    IF nacional_taxa >= inst_taxa THEN "Nacional" ELSE inst

\* melhor = 'Nacional' if nacional_taxa > inst_taxa else inst
melhor(nacional_taxa, inst_taxa, inst) ==
    IF nacional_taxa > inst_taxa THEN "Nacional" ELSE inst

Abs(x) == IF x < 0 THEN 0 - x ELSE x

\* the gain without abs()
ganho_sem_abs(nacional_taxa, inst_taxa) == nacional_taxa - inst_taxa

\* 'Ganho': abs(nacional_taxa - inst_taxa)
ganho(nacional_taxa, inst_taxa) == Abs(nacional_taxa - inst_taxa)

\* every row of the (med, cid), the row of Nacional included
RECURSIVE todas_inst_data(_, _, _)
todas_inst_data(t, med, cid) ==
    IF t = <<>> THEN <<>>
    ELSE IF Head(t).Tecnologia = med /\ Head(t).CID = cid
         THEN <<Head(t)>> \o todas_inst_data(Tail(t), med, cid)
         ELSE todas_inst_data(Tail(t), med, cid)

\* the rows of the other institutions for the (med, cid) of a row of Nacional
RECURSIVE OutrasInstData(_, _, _)
OutrasInstData(t, med, cid) ==
    IF t = <<>> THEN <<>>
    ELSE IF Head(t).Tecnologia = med /\ Head(t).CID = cid /\ Head(t).Orgao # "Nacional"
         THEN <<Head(t)>> \o OutrasInstData(Tail(t), med, cid)
         ELSE OutrasInstData(Tail(t), med, cid)

RECURSIVE LoopOutras(_, _)
LoopOutras(row, outras) ==
    IF outras = <<>> THEN <<>>
    ELSE <<[Medicamento |-> row.Tecnologia,
            CID |-> row.CID,
            Instituicao |-> Head(outras).Orgao,
            Instituicao_num_pareceres |-> Head(outras).NPareceres,
            Instituicao_taxa |-> Head(outras).Favoravel,
            Nacional_num_pareceres |-> row.NPareceres,
            Nacional_taxa |-> row.Favoravel,
            Melhor |-> melhor(row.Favoravel, Head(outras).Favoravel, Head(outras).Orgao),
            Ganho |-> ganho(row.Favoravel, Head(outras).Favoravel)]>>
         \o LoopOutras(row, Tail(outras))

RECURSIVE LoopNacional(_, _)
LoopNacional(t, df_nacional) ==
    IF df_nacional = <<>> THEN <<>>
    ELSE LoopOutras(Head(df_nacional),
                    OutrasInstData(t, Head(df_nacional).Tecnologia, Head(df_nacional).CID))
         \o LoopNacional(t, Tail(df_nacional))

\* comparacao_resultados of comparar_com_nacional
comparar_com_nacional(t) == LoopNacional(t, Where(t, "Orgao", {"Nacional"}))

\* data[data[col] == valor], for a table of plain rows
RECURSIVE Linhas(_, _, _)
Linhas(data, col, valor) ==
    IF data = <<>> THEN <<>>
    ELSE IF Head(data)[col] = valor
         THEN <<Head(data)>> \o Linhas(Tail(data), col, valor)
         ELSE Linhas(Tail(data), col, valor)

\* df[col].unique() of a table of plain rows
RECURSIVE Distintos(_, _, _)
Distintos(data, col, seen) ==
    IF data = <<>> THEN <<>>
    ELSE IF Head(data)[col] \in seen
         THEN Distintos(Tail(data), col, seen)
         ELSE <<Head(data)[col]>> \o Distintos(Tail(data), col, seen \cup {Head(data)[col]})

\* only the first of the cases that reach the maximum
primeiro_no_ganho(data, max_ganho) == SubSeq(Linhas(data, "Ganho", max_ganho), 1, 1)

\* nacional_data[nacional_data['Ganho'] == max_ganho_nacional]
casos_no_ganho(data, max_ganho) == Linhas(data, "Ganho", max_ganho)

\* f"{taxa:.1f}% (n={num})": the rate to one decimal and the number of pareceres
TaxaFormatada(taxa, num) == <<taxa, "% (n=", num, ")">>

\* the dictionaries appended for the cases of one institution and one side
RECURSIVE LoopMaximos(_, _, _)
LoopMaximos(casos, inst, escolhendo) ==
    IF casos = <<>> THEN <<>>
    ELSE <<[Instituicao |-> inst,
            Ganho_escolhendo |-> escolhendo,
            Medicamento |-> Head(casos).Medicamento,
            CID |-> Head(casos).CID,
            Nacional_taxa |-> TaxaFormatada(Head(casos).Nacional_taxa,
                                            Head(casos).Nacional_num_pareceres),
            Instituicao_taxa |-> TaxaFormatada(Head(casos).Instituicao_taxa,
                                               Head(casos).Instituicao_num_pareceres),
            Ganho |-> Head(casos).Ganho]>>
         \o LoopMaximos(Tail(casos), inst, escolhendo)

\* the rows of one side (Melhor == lado) of the data of one institution
MaioresDoLado(inst_data, inst, lado) ==
    LET lado_data == Linhas(inst_data, "Melhor", lado)
    IN IF lado_data = <<>> THEN <<>>
       ELSE LoopMaximos(casos_no_ganho(lado_data,
                                       SeqMax(Range(Coluna(lado_data, "Ganho")))),
                        inst, lado)

RECURSIVE LoopInstituicoes(_, _)
LoopInstituicoes(cmp, insts) ==
    IF insts = <<>> THEN <<>>
    ELSE LET inst_data == Linhas(cmp, "Instituicao", Head(insts))
         IN MaioresDoLado(inst_data, Head(insts), "Nacional")
            \o MaioresDoLado(inst_data, Head(insts), Head(insts))
            \o LoopInstituicoes(cmp, Tail(insts))

\* maiores_ganhos of analisar_maiores_ganhos
analisar_maiores_ganhos(cmp) == LoopInstituicoes(cmp, Distintos(cmp, "Instituicao", {}))

(***************************************************************************)
(* Inputs of the analysis of the base de controle                          *)
(***************************************************************************)
MaxBaseRows == 4

Med1 == <<"a", "b">>

CidE11 == <<"E", "1", "1">>

CidI10 == <<"I", "1", "0">>

\* the (institution, tecnologia, cid) keys a base de controle of the model has
ChavesBase == {<<"Nacional", Med1, CidE11>>, <<"SP", Med1, CidE11>>,
               <<"MG", Med1, CidE11>>, <<"RJ", Med1, CidE11>>,
               <<"Nacional", Med1, CidI10>>, <<"SP", Med1, CidI10>>}

\* (number of rows, number of favourable rows) of a partition of the base
ContagensBase == {<<11, 0>>, <<12, 6>>, <<12, 12>>}

\* the rows gerar_base_controle writes for a set of keys and these counts
LinhasCom(chaves) ==
    {[Orgao |-> k[1], Tecnologia |-> k[2], CID |-> k[3],
      NPareceres |-> c[1],
      Favoravel |-> Round3Pct(c[2], c[1]),
      NaoFavoravel |-> Round3Pct(c[1] - c[2], c[1])] : k \in chaves, c \in ContagensBase}

LinhasBase == LinhasCom(ChavesBase)

\* keys with two (tecnologia, cid) pairs that two institutions other than Nacional
\* have a row for
ChavesDoisPares == {<<"Nacional", Med1, CidE11>>, <<"SP", Med1, CidE11>>,
                    <<"MG", Med1, CidE11>>, <<"SP", Med1, CidI10>>,
                    <<"MG", Med1, CidI10>>}

\* gerar_base_controle writes one row per (institution, tecnologia, cid)
ChavesDistintas(t) ==
    \A i, j \in DOMAIN t :
        i # j => <<t[i].Orgao, t[i].Tecnologia, t[i].CID>> #
                 <<t[j].Orgao, t[j].Tecnologia, t[j].CID>>

\* the rows come out of the loops `for inst`, `for med`, `for cid`: the rows of an
\* institution are together, and in them the rows of a tecnologia are together
OrdemDosLacos(t) ==
    \A i, j, k \in DOMAIN t :
        (i < j /\ j < k /\ t[i].Orgao = t[k].Orgao) =>
            /\ t[j].Orgao = t[i].Orgao
            /\ t[i].Tecnologia = t[k].Tecnologia => t[j].Tecnologia = t[i].Tecnologia

\* the bases de controle of at most n rows out of a set of rows
RECURSIVE BasesCom(_, _)
BasesCom(linhas, n) ==
    IF n = 0 THEN {<<>>}
    ELSE LET menores == BasesCom(linhas, n - 1)
             cheias == {t \in menores : Len(t) = n - 1}
         IN menores \cup
            {Append(x[1], x[2]) :
                x \in {y \in cheias \X linhas :
                          /\ ChavesDistintas(Append(y[1], y[2]))
                          /\ OrdemDosLacos(Append(y[1], y[2]))}}

BasesAte(n) == BasesCom(LinhasBase, n)

\* min_pareceres of a call: the default, and one above the sizes of some rows
MinPareceresPadrao == 10

MinPareceresVals == {MinPareceresPadrao, 12}

\* the script, or a call of comparar_com_nacional, about to read one of these bases
InitRankCom(bases) ==
    /\ pc \in {"rank_carregada", "cmp_chamada"}
    /\ erro = ""
    /\ chamada = SemChamada
    /\ df = Vazio
    /\ df_prep = Vazio
    /\ lista_inst = Vazio
    /\ MedParado
    /\ RegParado
    /\ DriverParado
    /\ limites = SemLimites
    /\ df_base \in bases
    /\ df_difs = Vazio
    /\ df_comparacao = Vazio
    /\ df_maiores_ganhos = Vazio
    /\ df_quadro = Vazio

InitRank == InitRankCom(BasesAte(MaxBaseRows))

\* the analysis with the filters applied to df_base itself instead of to a copy
AnalisarDiferencasNoLugar ==
    /\ pc = "rank_carregada"
    /\ \E m \in MinPareceresVals :
          /\ chamada' = [funcao |-> "analisar_diferencas_entre_instituicoes",
                         min_pareceres |-> m]
          /\ IF df_base = <<>>
             THEN /\ erro' = "KeyError"
                  /\ pc' = "rank_sem_colunas"
                  /\ UNCHANGED <<df_difs, df_base>>
             ELSE /\ df_base' = FiltradoFinal(df_base, m)
                  /\ df_difs' = ResultadosDiferencas(df_base, m)
                  /\ IF df_difs' = <<>>
                     THEN erro' = "KeyError" /\ pc' = "rank_sem_grupos"
                     ELSE erro' = "" /\ pc' = "rank_difs"
    /\ UNCHANGED <<df, df_prep, lista_inst, varsMed, varsReg, varsDriver, limites,
                   df_comparacao, df_maiores_ganhos, df_quadro>>

\* main(): df_difs = analisar_diferencas_entre_instituicoes(df_base, pasta_output).
\* A base written from an empty list has no columns: df_base['Órgão de ATS'] raises
\* KeyError.  When no group is left, diferencas_medicamentos.xlsx is written empty and
\* df_difs['Diferença ...'] raises KeyError.
AnalisarDiferencas ==
    /\ pc = "rank_carregada"
    /\ \E m \in MinPareceresVals :
          /\ chamada' = [funcao |-> "analisar_diferencas_entre_instituicoes",
                         min_pareceres |-> m]
          /\ IF df_base = <<>>
             THEN /\ erro' = "KeyError"
                  /\ pc' = "rank_sem_colunas"
                  /\ UNCHANGED df_difs
             ELSE /\ df_difs' = ResultadosDiferencas(df_base, m)
                  /\ IF df_difs' = <<>>
                     THEN erro' = "KeyError" /\ pc' = "rank_sem_grupos"
                     ELSE erro' = "" /\ pc' = "rank_difs"
    /\ UNCHANGED <<df, df_prep, lista_inst, varsMed, varsReg, varsDriver, limites, df_base,
                   df_comparacao, df_maiores_ganhos, df_quadro>>

\* df_comparacao = comparar_com_nacional(df_base, pasta_output), in main() after the
\* analysis of the differences or called on its own
CompararComNacional ==
    /\ pc \in {"rank_difs", "cmp_chamada"}
    /\ IF df_base = <<>>
       THEN /\ erro' = "KeyError"
            /\ pc' = "rank_sem_colunas"
            /\ UNCHANGED df_comparacao
       ELSE /\ df_comparacao' = comparar_com_nacional(df_base)
            /\ pc' = "rank_comparada"
            /\ UNCHANGED erro
    /\ UNCHANGED <<chamada, df, df_prep, lista_inst, varsMed, varsReg, varsDriver, limites,
                   df_base, df_difs, df_maiores_ganhos, df_quadro>>

\* main(): if not df_comparacao.empty:
\*             df_maiores_ganhos = analisar_maiores_ganhos(df_comparacao, pasta_output)
AnalisarMaioresGanhos ==
    /\ pc = "rank_comparada"
    /\ df_comparacao # <<>>
    /\ df_maiores_ganhos' = analisar_maiores_ganhos(df_comparacao)
    /\ pc' = "rank_ganhos"
    /\ UNCHANGED <<erro, chamada, df, df_prep, lista_inst, varsMed, varsReg, varsDriver, limites,
                   df_base, df_difs, df_comparacao, df_quadro>>

NextRank ==
    \/ AnalisarDiferencas
    \/ CompararComNacional
    \/ AnalisarMaioresGanhos

SpecRank == InitRank /\ [][NextRank]_vars

\* the same script on the bases with two comparable pairs
InitDoisPares == InitRankCom(BasesCom(LinhasCom(ChavesDoisPares), MaxBaseRows))

SpecDoisPares == InitDoisPares /\ [][NextRank]_vars

\* main(): df_base = carregar_base_controle(pasta_input='outputs'), reading the file
\* gerar_base_controle saved
CarregarBaseControle ==
    /\ pc = "base_retornou"
    /\ df_base' = df_resultados
    /\ pc' = "rank_carregada"
    /\ UNCHANGED <<erro, chamada, df, df_prep, lista_inst, varsMed, varsReg, varsDriver,
                   limites, df_difs, df_comparacao, df_maiores_ganhos, df_quadro>>

\* main(): gerar_quadro_divergencias_maximas(df_difs, pasta_output)
GerarQuadroDivergenciasMaximas ==
    /\ pc = "rank_difs"
    /\ df_quadro' = gerar_quadro_divergencias_maximas(df_difs)
    /\ pc' = "rank_quadro"
    /\ UNCHANGED <<erro, chamada, df, df_prep, lista_inst, varsMed, varsReg, varsDriver,
                   limites, df_base, df_difs, df_comparacao, df_maiores_ganhos>>

\* keys of two institutions on two (tecnologia, cid) pairs
ChavesQuadro == {k \in ChavesDoisPares : k[1] # "Nacional"}

\* the base de controle generated from a prepared table and then analysed, or a base
\* de controle of the two pairs about to be analysed
InitQuadro ==
    \/ InitBase
    \/ /\ InitRankCom(BasesCom(LinhasCom(ChavesQuadro), MaxBaseRows))
       /\ pc = "rank_carregada"

NextQuadro ==
    \/ ChamarGerarBaseControle
    \/ CarregarBaseControle
    \/ AnalisarDiferencas
    \/ GerarQuadroDivergenciasMaximas

SpecQuadro == InitQuadro /\ [][NextQuadro]_vars

(***************************************************************************)
(* filtragem.py                                                            *)
(*                                                                         *)
(* The text of data_emissao is the sequence of its numeric fields, in the  *)
(* order they are written; a parsed date is <<year, month, day, hour,      *)
(* minute, second>> and a null is the empty sequence.                      *)
(***************************************************************************)
DataNula == <<>>

\* days of a month; February of a leap year has 29
DiasDoMes(ano, mes) ==
    IF mes \in {4, 6, 9, 11} THEN 30
    ELSE IF mes = 2
         THEN (IF ano % 4 = 0 /\ (ano % 100 # 0 \/ ano % 400 = 0) THEN 29 ELSE 28)
         ELSE 31

\* str.strptime(pl.Datetime, format="%d/%m/%Y %H:%M:%S", strict=False): a text that
\* does not match the format becomes null
strptime(texto) ==
    IF /\ Len(texto) = 6
       /\ texto[2] \in 1..12
       /\ texto[1] \in 1..DiasDoMes(texto[3], texto[2])
       /\ texto[4] \in 0..23 /\ texto[5] \in 0..59 /\ texto[6] \in 0..59
    THEN <<texto[3], texto[2], texto[1], texto[4], texto[5], texto[6]>>
    ELSE DataNula

\* the seconds of a date, counted from the year 2000, for comparing two dates
Instante(d) ==
    (((((d[1] - 2000) * 12 + d[2]) * 31 + d[3]) * 24 + d[4]) * 60 + d[5]) * 60 + d[6]

\* pl.datetime(2024, 12, 31, 23, 59, 59)
DataLimite == <<2024, 12, 31, 23, 59, 59>>

\* pl.col("data_emissao") <= pl.datetime(...): filter keeps the rows where it is true,
\* and a comparison with null is null
AteADataLimite(d) == d # DataNula /\ Instante(d) <= Instante(DataLimite)

\* a table with the column data_emissao parsed
ComDatasConvertidas(t) ==
    [i \in DOMAIN t |-> [t[i] EXCEPT !.data_emissao = strptime(t[i].data_emissao)]]

RECURSIVE FiltrarPorData(_)
FiltrarPorData(t) ==
    IF t = <<>> THEN <<>>
    ELSE IF AteADataLimite(Head(t).data_emissao)
         THEN <<Head(t)>> \o FiltrarPorData(Tail(t))
         ELSE FiltrarPorData(Tail(t))

\* pl.col('selTipoTecnologia') == '1'
RECURSIVE FiltrarPorTecnologia(_)
FiltrarPorTecnologia(t) ==
    IF t = <<>> THEN <<>>
    ELSE IF Head(t).selTipoTecnologia = "1"
         THEN <<Head(t)>> \o FiltrarPorTecnologia(Tail(t))
         ELSE FiltrarPorTecnologia(Tail(t))

\* the when/then chain on origem_tratada ("Nao informada" stands for 'Não informada')
agregar_instituicao(origem) ==
    IF origem \in {"PR/CAMS", "PR/CHR", "PR/UEL", "PR/CHC-UFPR"} THEN "PR"
    ELSE IF origem \in {"AM/SES", "AM/SEMSA", "AM"} THEN "AM"
    ELSE IF origem = "SP/HC" THEN "SP"
    ELSE IF origem = "DF" THEN "DFT"
    ELSE IF origem \in {"RS", "Nao informada"} THEN NaoPreenchido
    ELSE origem

AgregarInstituicoesDe(t) ==
    [i \in DOMAIN t |-> [t[i] EXCEPT !.origem_tratada = agregar_instituicao(t[i].origem_tratada)]]

\* texts of data_emissao: the last second kept, the first of 2025, a day of the first
\* half of 2025, 30/06/2025, 01/07/2025 and a date written year first
TextosDeData == {<<31, 12, 2024, 23, 59, 59>>, <<1, 1, 2025, 0, 0, 0>>,
                 <<15, 3, 2025, 10, 30, 0>>, <<30, 6, 2025, 23, 59, 59>>,
                 <<1, 7, 2025, 0, 0, 0>>, <<2024, 5, 20>>}

OrigensBrutas == {"PR/CAMS", "PR/CHC-UFPR", "AM/SES", "AM", "SP/HC", "DF", "RS",
                  "Nao informada", "MG", "PR"}

RegistrosBrutos ==
    [data_emissao : TextosDeData, selTipoTecnologia : {"1", "2"},
     origem_tratada : OrigensBrutas]

\* df = pl.read_parquet('base_enatjus.parquet')
InitFiltragem ==
    /\ pc = "fil_carregada"
    /\ erro = ""
    /\ chamada = SemChamada
    /\ df \in BoundedSeq(RegistrosBrutos, MaxRuns)
    /\ df_prep = Vazio
    /\ lista_inst = Vazio
    /\ MedParado
    /\ RegParado
    /\ RankParado
    /\ DriverParado
    /\ limites = SemLimites

\* step 2: the dates are converted in df, and df_filtrado has the rows up to the limit
ConverterEFiltrarData ==
    /\ pc = "fil_carregada"
    /\ df' = ComDatasConvertidas(df)
    /\ df_filtrado' = FiltrarPorData(df')
    /\ pc' = "fil_data"
    /\ UNCHANGED <<erro, chamada, df_prep, lista_inst, varsMed, df_taxas, df_subconjuntos,
                   resultados, barras, limites, varsRank, varsDriver>>

\* step 3
FiltrarTecnologia ==
    /\ pc = "fil_data"
    /\ df_filtrado' = FiltrarPorTecnologia(df_filtrado)
    /\ pc' = "fil_tecnologia"
    /\ UNCHANGED <<erro, chamada, df, df_prep, lista_inst, varsMed, df_taxas,
                   df_subconjuntos, resultados, barras, limites, varsRank, varsDriver>>

\* step 4, after which the table is saved as base_enatjus_2025-1.parquet
AgregarInstituicoes ==
    /\ pc = "fil_tecnologia"
    /\ df_filtrado' = AgregarInstituicoesDe(df_filtrado)
    /\ pc' = "fil_agregada"
    /\ UNCHANGED <<erro, chamada, df, df_prep, lista_inst, varsMed, df_taxas,
                   df_subconjuntos, resultados, barras, limites, varsRank, varsDriver>>

NextFiltragem ==
    \/ ConverterEFiltrarData
    \/ FiltrarTecnologia
    \/ AgregarInstituicoes

SpecFiltragem == InitFiltragem /\ [][NextFiltragem]_vars

(***************************************************************************)
(* utils.py: MAPA_CID and obter_tipo_do_cid                                *)
(*                                                                         *)
(* A text is the sequence of its characters; the labels are written        *)
(* without accents.                                                        *)
(***************************************************************************)
OlhoEAnexos == "Doencas do olho e anexos (H00-H59)"
OuvidoEMastoide == "Doencas do ouvido e da apofise mastoide (H60-H95)"
NeoplasiasD == "Neoplasias (tumores) (D00-D48)"
SangueEImunologico == "Doencas do sangue e dos orgaos hematopoeticos e alguns transtornos envolvendo o sistema imunologico (D50-D89)"

\* the items of the dictionary, in the order they were inserted
MAPA_CID == <<
    [de |-> <<"A">>, ate |-> <<"B">>, valor |-> "Algumas doencas infecciosas e parasitarias (A00-B99)"],
    [de |-> <<"C">>, ate |-> <<"C">>, valor |-> "Neoplasias (tumores) (C00-C97)"],
    [de |-> <<"D">>, ate |-> <<"D", "4", "8">>, valor |-> NeoplasiasD],
    [de |-> <<"D", "4", "9">>, ate |-> <<"D", "8", "9">>, valor |-> SangueEImunologico],
    [de |-> <<"E">>, ate |-> <<"E">>, valor |-> "Doencas endocrinas, nutricionais e metabolicas (E00-E90)"],
    [de |-> <<"F">>, ate |-> <<"F">>, valor |-> "Transtornos mentais e comportamentais (F00-F99)"],
    [de |-> <<"G">>, ate |-> <<"G">>, valor |-> "Doencas do sistema nervoso (G00-G99)"],
    [de |-> <<"H", "0", "0">>, ate |-> <<"H", "5", "9">>, valor |-> OlhoEAnexos],
    [de |-> <<"H", "6", "0">>, ate |-> <<"H", "9", "5">>, valor |-> OuvidoEMastoide],
    [de |-> <<"I">>, ate |-> <<"I">>, valor |-> "Doencas do sistema circulatorio (I00-I99)"],
    [de |-> <<"J">>, ate |-> <<"J">>, valor |-> "Doencas do sistema respiratorio (J00-J99)"],
    [de |-> <<"K">>, ate |-> <<"K">>, valor |-> "Doencas do sistema digestivo (K00-K93)"],
    [de |-> <<"L">>, ate |-> <<"L">>, valor |-> "Doencas da pele e do tecido subcutaneo (L00-L99)"],
    [de |-> <<"M">>, ate |-> <<"M">>, valor |-> "Doencas do sistema osteomuscular e do tecido conjuntivo (M00-M99)"],
    [de |-> <<"N">>, ate |-> <<"N">>, valor |-> "Doencas do sistema geniturinario (N00-N99)"],
    [de |-> <<"O">>, ate |-> <<"O">>, valor |-> "Gravidez, parto e o puerperio (O00-O99)"],
    [de |-> <<"P">>, ate |-> <<"P">>, valor |-> "Algumas afeccoes originadas no periodo perinatal (P00-P96)"],
    [de |-> <<"Q">>, ate |-> <<"Q">>, valor |-> "Malformacoes congenitas, deformidades e anomalias cromossomicas (Q00-Q99)"],
    [de |-> <<"R">>, ate |-> <<"R">>, valor |-> "Sintomas, sinais e achados anormais de exames clinicos e de laboratorio, nao classificados em outra parte (R00-R99)"],
    [de |-> <<"S">>, ate |-> <<"T">>, valor |-> "Lesoes, envenenamentos e algumas outras consequencias de causas externas (S00-T98)"],
    [de |-> <<"U">>, ate |-> <<"U">>, valor |-> "Codigos para propositos especiais (U00-U99)"],
    [de |-> <<"V">>, ate |-> <<"Y">>, valor |-> "Codigos de causas externas de morbidade e de mortalidade (V01-Y98)"],
    [de |-> <<"Z">>, ate |-> <<"Z">>, valor |-> "Fatores que influenciam o estado de saude e o contato com os servicos de saude (Z00-Z99)"] >>

\* a <= b for two texts
TextoMenorOuIgual(a, b) == a = b \/ TextoMenor(a, b)

\* the number a text of decimal digits writes
RECURSIVE ValorDosDigitos(_)
ValorDosDigitos(ds) ==
    IF ds = <<>> THEN 0
    ELSE ValorDosDigitos(SubSeq(ds, 1, Len(ds) - 1)) * 10 + (Ord(ds[Len(ds)]) - Ord("0"))

SoDigitos(ds) == ds # <<>> /\ \A i \in DOMAIN ds : ds[i] \in Digits

\* int(num_str): an optional sign and decimal digits, ValueError otherwise
int(num_str) ==
    IF SoDigitos(num_str)
    THEN [raised |-> FALSE, valor |-> ValorDosDigitos(num_str)]
    ELSE IF num_str # <<>> /\ Head(num_str) \in {"-", "+"} /\ SoDigitos(Tail(num_str))
         THEN [raised |-> FALSE,
               valor |-> IF Head(num_str) = "-" THEN 0 - ValorDosDigitos(Tail(num_str))
                         ELSE ValorDosDigitos(Tail(num_str))]
         ELSE [raised |-> TRUE, valor |-> 0]

\* the loop over MAPA_CID.items(), from item i on: the first item whose interval has
\* the letter and whose two ends are of one character
RECURSIVE CasosGerais(_, _)
CasosGerais(letra, i) ==
    IF i > Len(MAPA_CID) THEN ""
    ELSE IF /\ TextoMenorOuIgual(MAPA_CID[i].de, <<letra>>)
            /\ TextoMenorOuIgual(<<letra>>, MAPA_CID[i].ate)
            /\ Len(MAPA_CID[i].de) = 1
            /\ Len(MAPA_CID[i].ate) = 1
         THEN MAPA_CID[i].valor
         ELSE CasosGerais(letra, i + 1)

obter_tipo_sem_casos_especiais(linha) ==
    IF linha.CID4_Num = NoCid THEN ""
    ELSE IF int(linha.CID4_Num).raised THEN ""
    ELSE CasosGerais(linha.CID4_Letra, 1)

obter_tipo_do_cid(linha) ==
    IF linha.CID4_Num = NoCid THEN ""
    ELSE IF int(linha.CID4_Num).raised THEN ""
    ELSE LET num == int(linha.CID4_Num).valor
         IN  IF linha.CID4_Letra = "H"
             THEN (IF num <= 59 THEN OlhoEAnexos ELSE OuvidoEMastoide)
             ELSE IF linha.CID4_Letra = "D"
                  THEN (IF num <= 48 THEN NeoplasiasD ELSE SangueEImunologico)
                  ELSE CasosGerais(linha.CID4_Letra, 1)

\* the characters of the texts of CID4-Num
CaracteresDoNum == {"0", "4", "5", "6", "8", "9", "-", "."}

\* the longest text of CID4-Num
MaxDigitos == 3

\* CID4-Num: missing, or a text of 1 to MaxDigitos characters
TextosDoNum == {NoCid} \cup (BoundedSeq(CaracteresDoNum, MaxDigitos) \ {<<>>})

\* CID4-Letra: an uppercase letter, or a lowercase one
LinhasCid == [CID4_Letra : UpperLetters \cup {"e"}, CID4_Num : TextosDoNum]

\* df with the columns CID4-Letra and CID4-Num, before CID4-Tipo is computed
InitCid ==
    /\ pc = "cid_extraido"
    /\ erro = ""
    /\ chamada = SemChamada
    /\ df \in {<<linha>> : linha \in LinhasCid}
    /\ df_prep = Vazio
    /\ lista_inst = Vazio
    /\ MedParado
    /\ RegParado
    /\ RankParado
    /\ DriverParado
    /\ limites = SemLimites

\* df['CID4-Tipo'] = df.apply(obter_tipo_do_cid, axis=1)
AplicarObterTipoDoCid ==
    /\ pc = "cid_extraido"
    /\ df' = [i \in DOMAIN df |->
                 [CID4_Letra |-> df[i].CID4_Letra, CID4_Num |-> df[i].CID4_Num,
                  CID4_Tipo |-> obter_tipo_do_cid(df[i])]]
    /\ pc' = "cid_classificado"
    /\ UNCHANGED <<erro, chamada, df_prep, lista_inst, varsMed, varsReg, limites,
                   varsRank, varsDriver>>

NextCid == AplicarObterTipoDoCid

SpecCid == InitCid /\ [][NextCid]_vars

(***************************************************************************)
(* The analyses of the two scripts, for properties that hold of all of them *)
(***************************************************************************)
InitAnalises == InitReg \/ InitRank

NextAnalises == NextReg \/ NextRank

SpecAnalises == InitAnalises /\ [][NextAnalises]_vars

\* small tables for the two analyses: records of two institutions in runs of 60, and
\* bases de controle with Nacional and three institutions on one (tecnologia, cid)
RunsOrdem == {r \in RunsReg : r.origem_tratada # NaoPreenchido
                              /\ r.selConclusao \in ConclusoesValidas
                              /\ r.mult = 60}

ChavesOrdem == {k \in ChavesBase : k[3] = CidE11}

InitOrdem ==
    \/ /\ pc = "reg_carregada"
       /\ erro = ""
       /\ chamada = SemChamada
       /\ df \in BoundedSeq(RunsOrdem, MaxRuns)
       /\ df_prep = Vazio
       /\ lista_inst = Vazio
       /\ MedParado
       /\ RegParado
       /\ RankParado
       /\ DriverParado
       /\ limites = SemLimites
    \/ InitRankCom(BasesCom(LinhasCom(ChavesOrdem), MaxBaseRows))

SpecOrdem == InitOrdem /\ [][NextAnalises]_vars

(***************************************************************************)
(* run_all_analyses.py                                                     *)
(*                                                                         *)
(* arquivos.base: base_enatjus_2025-1.parquet exists; arquivos.controle:   *)
(* outputs/controle_por_tratamento_e_por_CID.xlsx exists; arquivos.scripts: *)
(* the numbers of the scripts of SCRIPTS whose file exists.                *)
(***************************************************************************)
\* len(SCRIPTS)
NScripts == 6

\* position in SCRIPTS of gerar_base_diferencas_medicamentos.py, which writes the
\* base de controle, and of analise_diferencas_medicamentos.py, which reads it
ScriptGerarBase == 5

ScriptAnaliseMedicamentos == 6

\* the check that finds the base whatever the files
verificar_sem_olhar(arqs) == TRUE

\* os.path.exists(base_path)
verificar_base_dados(arqs) == arqs.base

\* the input a script loads is there: carregar_base_controle for the analysis of the
\* medicines, carregar_base_enatjus for the others
EntradaPresente(k, arqs) ==
    IF k = ScriptAnaliseMedicamentos THEN arqs.controle ELSE arqs.base

\* the return codes a script process can end with: an input that is missing raises
\* in the load and nothing catches it, so the interpreter exits with 1
RetornosDoScript(k, arqs) == IF EntradaPresente(k, arqs) THEN {0, 1} ELSE {1}

\* what executar_script can come to: the script file is missing, subprocess.run
\* raises, or the process runs and returns a code
ResultadosDeExecutar(k, arqs) ==
    IF k \notin arqs.scripts
    THEN {[numero |-> k, lancado |-> FALSE, retorno |-> SemStatus, sucesso |-> FALSE]}
    ELSE {[numero |-> k, lancado |-> FALSE, retorno |-> SemStatus, sucesso |-> FALSE]}
         \cup {[numero |-> k, lancado |-> TRUE, retorno |-> r, sucesso |-> (r = 0)] :
                  r \in RetornosDoScript(k, arqs)}

\* the files after a script has run: gerar_base_diferencas_medicamentos.py saves the
\* base de controle
ArquivosDepois(res, arqs) ==
    IF res.sucesso /\ res.numero = ScriptGerarBase
    THEN [arqs EXCEPT !.controle = TRUE]
    ELSE arqs

InitDriver ==
    /\ pc \in {"drv_inicio", "iso_inicio"}
    /\ erro = ""
    /\ chamada = SemChamada
    /\ df = Vazio
    /\ df_prep = Vazio
    /\ lista_inst = Vazio
    /\ MedParado
    /\ RegParado
    /\ df_base = Vazio
    /\ df_difs = Vazio
    /\ df_comparacao = Vazio
    /\ df_maiores_ganhos = Vazio
    /\ df_quadro = Vazio
    /\ limites = SemLimites
    /\ arquivos \in [base : BOOLEAN, controle : BOOLEAN, scripts : SUBSET (1..NScripts)]
    /\ numero = 0
    /\ scripts_sucesso = 0
    /\ scripts_falha = 0
    /\ historico = <<>>
    /\ exit_status = SemStatus

varsAnalises == <<erro, chamada, df, df_prep, lista_inst, varsMed, varsReg, varsRank, limites>>

\* main(): if not verificar_base_dados(): sys.exit(1)
VerificarBaseDados ==
    /\ pc = "drv_inicio"
    /\ IF verificar_base_dados(arquivos)
       THEN pc' = "drv_loop" /\ numero' = 1 /\ UNCHANGED exit_status
       ELSE pc' = "drv_saiu" /\ exit_status' = 1 /\ UNCHANGED numero
    /\ UNCHANGED <<varsAnalises, arquivos, scripts_sucesso, scripts_falha, historico>>

\* one turn of the loop without the break: after a failure the next script is run
ExecutarScriptSemBreak ==
    /\ pc = "drv_loop"
    /\ numero <= NScripts
    /\ \E res \in ResultadosDeExecutar(numero, arquivos) :
          /\ historico' = Append(historico, res)
          /\ arquivos' = ArquivosDepois(res, arquivos)
          /\ IF res.sucesso
             THEN scripts_sucesso' = scripts_sucesso + 1 /\ UNCHANGED scripts_falha
             ELSE scripts_falha' = scripts_falha + 1 /\ UNCHANGED scripts_sucesso
          /\ IF numero = NScripts
             THEN pc' = "drv_resumo" /\ UNCHANGED numero
             ELSE pc' = "drv_loop" /\ numero' = numero + 1
    /\ UNCHANGED <<varsAnalises, exit_status>>

\* main(): one turn of `for i, script_info in enumerate(SCRIPTS, 1)`, with the break
\* on the first failure
ExecutarScript ==
    /\ pc = "drv_loop"
    /\ numero <= NScripts
    /\ \E res \in ResultadosDeExecutar(numero, arquivos) :
          /\ historico' = Append(historico, res)
          /\ arquivos' = ArquivosDepois(res, arquivos)
          /\ IF res.sucesso
             THEN /\ scripts_sucesso' = scripts_sucesso + 1
                  /\ UNCHANGED scripts_falha
                  /\ IF numero = NScripts
                     THEN pc' = "drv_resumo" /\ UNCHANGED numero
                     ELSE pc' = "drv_loop" /\ numero' = numero + 1
             ELSE /\ scripts_falha' = scripts_falha + 1
                  /\ UNCHANGED <<scripts_sucesso, numero>>
                  /\ pc' = "drv_resumo"
    /\ UNCHANGED <<varsAnalises, exit_status>>

\* the summary followed by sys.exit(0) whatever the counts
ResumoFinalSempreZero ==
    /\ pc = "drv_resumo"
    /\ exit_status' = 0
    /\ pc' = "drv_saiu"
    /\ UNCHANGED <<varsAnalises, arquivos, numero, scripts_sucesso, scripts_falha,
                   historico>>

\* main(): the summary, then sys.exit(1) if scripts_falha > 0 else sys.exit(0)
ResumoFinal ==
    /\ pc = "drv_resumo"
    /\ exit_status' = (IF scripts_falha > 0 THEN 1 ELSE 0)
    /\ pc' = "drv_saiu"
    /\ UNCHANGED <<varsAnalises, arquivos, numero, scripts_sucesso, scripts_falha,
                   historico>>

\* a script run on its own: python3 <script> in its directory
ExecutarIsolado ==
    /\ pc = "iso_inicio"
    /\ \E k \in arquivos.scripts : \E r \in RetornosDoScript(k, arquivos) :
          LET res == [numero |-> k, lancado |-> TRUE, retorno |-> r, sucesso |-> (r = 0)]
          IN /\ numero' = k
             /\ historico' = <<res>>
             /\ arquivos' = ArquivosDepois(res, arquivos)
             /\ exit_status' = r
    /\ pc' = "iso_saiu"
    /\ UNCHANGED <<varsAnalises, scripts_sucesso, scripts_falha>>

NextDriver ==
    \/ VerificarBaseDados
    \/ ExecutarScript
    \/ ResumoFinal
    \/ ExecutarIsolado

SpecDriver == InitDriver /\ [][NextDriver]_vars

(***************************************************************************)
(* Properties.  The counting helpers below are written on row indices and  *)
(* are independent of the operators that model the code.                   *)
(***************************************************************************)
\* number of table rows among the runs with index in I
SomaMult(t, I) ==
    LET f[k \in 0..Len(t)] ==
            IF k = 0 THEN 0 ELSE f[k - 1] + (IF k \in I THEN t[k].mult ELSE 0)
    IN f[Len(t)]

\* size of the (institution, tecnologia, cid) partition of a prepared table
ContaParticao(t, inst, med, cid) ==
    SomaMult(t, {k \in DOMAIN t : /\ t[k].origem_tratada = inst
                                  /\ t[k].tecnologia_principio = med
                                  /\ t[k].cid_simplificado = cid})

\* number of rows of an institution, within coluna = valor unless geral
ContaInst(t, inst, coluna, valor, geral) ==
    SomaMult(t, {k \in DOMAIN t : /\ t[k].origem_tratada = inst
                                  /\ (geral \/ t[k][coluna] = valor)})

\* the (institution, tecnologia, cid) keys present in a prepared table
Particoes(t) ==
    {<<t[k].origem_tratada, t[k].tecnologia_principio, t[k].cid_simplificado>> :
        k \in DOMAIN t}

TemLinhaBase(rows, key) ==
    \E i \in DOMAIN rows :
        rows[i].Orgao = key[1] /\ rows[i].Tecnologia = key[2] /\ rows[i].CID = key[3]

\* C1: every row emitted by processar_subconjunto has 'Nº de pareceres' >=
\* min_observacoes and every row of the base de controle has 'Nº de pareceres' >= 10;
\* an institution or partition below the threshold has no row at all.
C1_LinhasAtingemMinimo ==
    /\ pc = "reg_processado" =>
          /\ \A i \in DOMAIN resultados :
                resultados[i].NPareceres >= chamada.min_observacoes
          /\ \A k \in DOMAIN df_filtrado :
                ContaInst(df_filtrado, df_filtrado[k].origem_tratada, chamada.coluna,
                          chamada.valor_filtro, chamada.geral) < chamada.min_observacoes
                => \A i \in DOMAIN resultados :
                      resultados[i].Orgao # df_filtrado[k].origem_tratada
    /\ pc = "med_base_gerada" =>
          /\ \A i \in DOMAIN df_resultados :
                df_resultados[i].NPareceres >= MinObservacoesMed
          /\ \A key \in Particoes(df_controle) :
                ContaParticao(df_controle, key[1], key[2], key[3]) < MinObservacoesMed
                => ~TemLinhaBase(df_resultados, key)

\* a base de controle with a row, made from a table in which another partition is
\* below the threshold
C1_Witness ==
    /\ pc = "med_base_gerada"
    /\ df_resultados # <<>>
    /\ \E key \in Particoes(df_controle) :
          ContaParticao(df_controle, key[1], key[2], key[3]) < MinObservacoesMed

\* C2: a partition of the base de controle is discarded only when it has fewer than
\* min_observacoes = 10 rows: every (institution, tecnologia, cid) partition of
\* df_controle with at least 10 rows, 10 included, has a row in the base.
C2_ParticaoNoMinimoRetida ==
    pc = "med_base_gerada" =>
        \A key \in Particoes(df_controle) :
            ContaParticao(df_controle, key[1], key[2], key[3]) >= MinObservacoesMed
            => TemLinhaBase(df_resultados, key)

\* C6: with n = 0 the interval is (0, 0) and nothing is raised, whatever p and z.
C6_NZeroDaZeroZero ==
    /\ (pc = "ic_retornou" /\ chamada.n = 0) =>
          limites = [raised |-> FALSE, inferior |-> 0, superior |-> 0] /\ erro = ""
    /\ (pc = "ic_estimado" /\ chamada.qtd_total = 0) =>
          limites = [raised |-> FALSE, inferior |-> 0, superior |-> 0] /\ erro = ""

\* a call with n = 0 and a proportion outside [0, 1] has returned
C6_Witness == pc = "ic_retornou" /\ chamada.n = 0 /\ chamada.p > Scale

\* C7: for 0 <= favoravel_count <= qtd_total and qtd_total > 0 the proportion lies in
\* [0, 1], nothing is raised, the margin is >= 0 and the bounds satisfy
\* inferior <= p <= superior at equal distance from p.
C7_LimitesEmTornoDeP ==
    (pc = "ic_estimado" /\ chamada.qtd_total > 0) =>
        LET f == ProporcaoFavoravel(chamada.favoravel_count, chamada.qtd_total)
            p == EmFixo(f)
        IN /\ 0 <= f[1] /\ f[1] <= f[2]
           /\ f[1] * chamada.qtd_total = chamada.favoravel_count * f[2]
           /\ 0 <= p /\ p <= Scale
           /\ ~limites.raised
           /\ limites.superior - limites.inferior >= 0
           /\ limites.inferior <= p /\ p <= limites.superior
           /\ p - limites.inferior = limites.superior - p

\* a group with a proportion strictly between 0 and 1 got an interval of positive width
C7_Witness ==
    /\ pc = "ic_estimado"
    /\ 0 < chamada.favoravel_count
    /\ chamada.favoravel_count < chamada.qtd_total
    /\ limites.inferior < limites.superior

\* the table without the rows whose conclusion is neither 'F' nor 'N'
SemOutrasConclusoes(t) ==
    LET f[k \in 0..Len(t)] ==
            IF k = 0 THEN <<>>
            ELSE IF t[k].selConclusao \in {"F", "N"} THEN Append(f[k - 1], t[k])
                 ELSE f[k - 1]
    IN f[Len(t)]

\* C10: records whose conclusion is neither 'F' nor 'N' contribute to no result: the
\* base de controle, the rates per institution, the rates per subset and the rows of
\* processar_subconjunto are those the same scripts produce from the table with
\* these records removed.
C10_SoFavoravelOuNaoContam ==
    LET limpo == SemOutrasConclusoes(df)
    IN /\ pc = "med_base_gerada" => df_resultados \in BasesDeControleDe(limpo)
       /\ pc \in {"reg_taxas", "reg_subconjuntos"} => df_taxas \in TaxasDe(limpo)
       /\ pc = "reg_subconjuntos" => df_subconjuntos \in SubconjuntosDe(limpo)
       /\ pc = "reg_processado" =>
             \E l \in TopInstLists(preparar_dados_divergencia(limpo), TopInst) :
                resultados = processar_subconjunto(
                                 Where(preparar_dados_divergencia(limpo),
                                       "origem_tratada", Range(l)),
                                 chamada.coluna, chamada.valor_filtro,
                                 chamada.min_observacoes, chamada.geral)

\* a base de controle with a row for an institution that also has, in the loaded
\* table, records with another conclusion
C10_Witness ==
    /\ pc = "med_base_gerada"
    /\ df_resultados # <<>>
    /\ \E k \in DOMAIN df :
          /\ df[k].selConclusao \notin {"F", "N"}
          /\ df[k].origem_tratada = df_resultados[1].Orgao
          /\ ExtractCid(df[k].txtCid) = df_resultados[1].CID

(***************************************************************************)
(* Properties of the analysis of the base de controle                      *)
(***************************************************************************)
\* analisar_diferencas_entre_instituicoes has built df_difs from df_base
DiferencasCalculadas ==
    /\ chamada.funcao = "analisar_diferencas_entre_instituicoes"
    /\ pc \in {"rank_difs", "rank_sem_grupos", "rank_comparada"}

\* the rows of df_base of a (Tecnologia, CID) pair that are not of Nacional and have
\* at least min_pareceres pareceres
Qualificadas(key) ==
    {i \in DOMAIN df_base :
        /\ df_base[i].Tecnologia = key[1]
        /\ df_base[i].CID = key[2]
        /\ df_base[i].Orgao # "Nacional"
        /\ df_base[i].NPareceres >= chamada.min_pareceres}

TaxasQualificadas(key) == {df_base[i].Favoravel : i \in Qualificadas(key)}

OrgaosComTaxa(key, taxa) ==
    {df_base[i].Orgao : i \in {j \in Qualificadas(key) : df_base[j].Favoravel = taxa}}

ParesDaBase == {<<df_base[i].Tecnologia, df_base[i].CID>> : i \in DOMAIN df_base}

\* C3: in every row of df_difs the field of the most favourable institution holds
\* every qualifying institution of the (Tecnologia, CID) group whose favourable rate
\* is the maximum of the group, and the field of the least favourable one every
\* institution whose rate is the minimum: on a tie all of them are recorded.
C3_EmpatesTodosRegistrados ==
    DiferencasCalculadas =>
        \A r \in Range(df_difs) :
            LET key == <<r.Tecnologia, r.CID>>
                taxas == TaxasQualificadas(key)
            IN /\ taxas # {}
               /\ Range(r.OrgaoMax) = OrgaosComTaxa(key, SeqMax(taxas))
               /\ Range(r.OrgaoMin) = OrgaosComTaxa(key, SeqMin(taxas))

\* rates [100, 100, 0]: two institutions at the maximum in one record
C3_Witness ==
    /\ DiferencasCalculadas
    /\ \E r \in Range(df_difs) :
          /\ Len(r.OrgaoMax) = 2
          /\ r.ValorMax = 1000
          /\ Len(r.OrgaoMin) = 1
          /\ r.ValorMin = 0

\* the row of df_base a comparison record takes a side from
LinhaDe(orgao, med, cid) ==
    {i \in DOMAIN df_base :
        /\ df_base[i].Orgao = orgao
        /\ df_base[i].Tecnologia = med
        /\ df_base[i].CID = cid}

\* the two rates of a comparison record are those of the rows of df_base of Nacional
\* and of the other institution for the same (medicamento, cid)
TaxasDaBase(r) ==
    /\ r.Instituicao # "Nacional"
    /\ \E i \in LinhaDe("Nacional", r.Medicamento, r.CID) :
          df_base[i].Favoravel = r.Nacional_taxa
    /\ \E i \in LinhaDe(r.Instituicao, r.Medicamento, r.CID) :
          df_base[i].Favoravel = r.Instituicao_taxa

\* C4: in every record of comparar_com_nacional 'Melhor' is 'Nacional' exactly when
\* the rate of Nacional is strictly greater than the rate of the other institution;
\* otherwise, equal rates included, it is the other institution.
C4_MelhorNacionalSoSeMaior ==
    pc = "rank_comparada" =>
        \A r \in Range(df_comparacao) :
            /\ TaxasDaBase(r)
            /\ (r.Melhor = "Nacional") <=> (r.Nacional_taxa > r.Instituicao_taxa)
            /\ ~(r.Nacional_taxa > r.Instituicao_taxa) => r.Melhor = r.Instituicao

\* one record with equal rates won by the other institution, one won by Nacional
C4_Witness ==
    /\ pc = "rank_comparada"
    /\ \E r \in Range(df_comparacao) :
          r.Nacional_taxa = r.Instituicao_taxa /\ r.Melhor = r.Instituicao
    /\ \E r \in Range(df_comparacao) :
          r.Nacional_taxa > r.Instituicao_taxa /\ r.Melhor = "Nacional"

\* C5: in every record of comparar_com_nacional 'Ganho' is the absolute difference of
\* the rate of Nacional and the rate of the other institution: it is never negative,
\* it is zero exactly when the two rates are equal, and two records whose rates are
\* swapped have the same 'Ganho'.
C5_GanhoDiferencaAbsoluta ==
    pc = "rank_comparada" =>
        /\ \A r \in Range(df_comparacao) :
              /\ TaxasDaBase(r)
              /\ \/ r.Ganho = r.Nacional_taxa - r.Instituicao_taxa
                 \/ r.Ganho = r.Instituicao_taxa - r.Nacional_taxa
              /\ r.Ganho >= 0
              /\ (r.Ganho = 0) <=> (r.Nacional_taxa = r.Instituicao_taxa)
        /\ \A r1, r2 \in Range(df_comparacao) :
              (/\ r1.Nacional_taxa = r2.Instituicao_taxa
               /\ r1.Instituicao_taxa = r2.Nacional_taxa) => r1.Ganho = r2.Ganho

\* two records with swapped, different rates and the same positive 'Ganho'
C5_Witness ==
    /\ pc = "rank_comparada"
    /\ \E r1, r2 \in Range(df_comparacao) :
          /\ r1.Nacional_taxa = r2.Instituicao_taxa
          /\ r1.Instituicao_taxa = r2.Nacional_taxa
          /\ r1.Nacional_taxa < r1.Instituicao_taxa
          /\ r1.Ganho > 0
          /\ r2.Ganho = r1.Ganho

\* C8: in every row of df_difs the spread is the recorded maximum favourable rate
\* minus the recorded minimum favourable rate, these are the maximum and the minimum
\* of the rates of its (Tecnologia, CID) group, and the spread is not negative.
C8_DiferencaMaxMenosMin ==
    DiferencasCalculadas =>
        \A r \in Range(df_difs) :
            LET taxas == TaxasQualificadas(<<r.Tecnologia, r.CID>>)
            IN /\ taxas # {}
               /\ r.ValorMax = SeqMax(taxas)
               /\ r.ValorMin = SeqMin(taxas)
               /\ r.Diferenca = r.ValorMax - r.ValorMin
               /\ r.Diferenca >= 0

\* a record with a positive spread above a minimum that is not zero
C8_Witness ==
    /\ DiferencasCalculadas
    /\ \E r \in Range(df_difs) : r.Diferenca = 500 /\ r.ValorMin = 500

\* the institutions that qualify for a (Tecnologia, CID) pair
OrgaosQualificados(key) == {df_base[i].Orgao : i \in Qualificadas(key)}

\* C9: df_difs has a row for a (Tecnologia, CID) pair if and only if at least 2
\* distinct institutions other than Nacional have a row of that pair with at least
\* min_pareceres pareceres; it has at most one row per pair.
C9_RegistroSeDuasInstituicoes ==
    DiferencasCalculadas =>
        /\ \A key \in ParesDaBase :
              (\E r \in Range(df_difs) : <<r.Tecnologia, r.CID>> = key)
                  <=> Cardinality(OrgaosQualificados(key)) >= 2
        /\ \A r \in Range(df_difs) : <<r.Tecnologia, r.CID>> \in ParesDaBase
        /\ \A i, j \in DOMAIN df_difs :
              (/\ df_difs[i].Tecnologia = df_difs[j].Tecnologia
               /\ df_difs[i].CID = df_difs[j].CID) => i = j

\* a pair with a record, whose group has an institution below min_pareceres, beside
\* a pair left with one qualifying institution
C9_Witness ==
    /\ DiferencasCalculadas
    /\ \E r \in Range(df_difs) :
          /\ <<r.Tecnologia, r.CID>> = <<Med1, CidE11>>
          /\ Len(r.OrgaoMax) + Len(r.OrgaoMin) = 2
          /\ \E i \in DOMAIN df_base :
                /\ df_base[i].CID = CidE11
                /\ df_base[i].Orgao # "Nacional"
                /\ df_base[i].NPareceres < chamada.min_pareceres
    /\ Cardinality(OrgaosQualificados(<<Med1, CidI10>>)) = 1

\* the comparison records of an institution won by one side
DoLado(inst, lado) ==
    {i \in DOMAIN df_comparacao :
        df_comparacao[i].Instituicao = inst /\ df_comparacao[i].Melhor = lado}

\* those of them whose 'Ganho' is the maximum of the institution and side
NoMaximo(inst, lado) ==
    {i \in DoLado(inst, lado) :
        \A j \in DoLado(inst, lado) : df_comparacao[j].Ganho <= df_comparacao[i].Ganho}

\* the rows of df_maiores_ganhos of an institution and side
SaidaDoLado(inst, lado) ==
    {k \in DOMAIN df_maiores_ganhos :
        /\ df_maiores_ganhos[k].Instituicao = inst
        /\ df_maiores_ganhos[k].Ganho_escolhendo = lado}

\* an output row and a comparison record are the same case
MesmoCaso(k, i) ==
    /\ df_maiores_ganhos[k].Medicamento = df_comparacao[i].Medicamento
    /\ df_maiores_ganhos[k].CID = df_comparacao[i].CID
    /\ df_maiores_ganhos[k].Instituicao = df_comparacao[i].Instituicao
    /\ df_maiores_ganhos[k].Ganho = df_comparacao[i].Ganho

\* C11: for every institution of the comparison and each side (Nacional wins, the
\* institution wins) the rows of analisar_maiores_ganhos of that institution and side
\* are exactly the comparison records of that institution and side whose 'Ganho' is
\* the maximum of that institution and side, one row per record: every case tied at
\* the maximum is kept, and no other row is in the output.
C11_TodosOsEmpatesNoMaximo ==
    pc = "rank_ganhos" =>
        /\ \A r \in Range(df_comparacao) : \A lado \in {"Nacional", r.Instituicao} :
              /\ \A i \in NoMaximo(r.Instituicao, lado) :
                    \E k \in SaidaDoLado(r.Instituicao, lado) : MesmoCaso(k, i)
              /\ \A k \in SaidaDoLado(r.Instituicao, lado) :
                    \E i \in NoMaximo(r.Instituicao, lado) : MesmoCaso(k, i)
              /\ Cardinality(SaidaDoLado(r.Instituicao, lado)) =
                     Cardinality(NoMaximo(r.Instituicao, lado))
        /\ \A k \in DOMAIN df_maiores_ganhos :
              \E r \in Range(df_comparacao) :
                  /\ df_maiores_ganhos[k].Instituicao = r.Instituicao
                  /\ df_maiores_ganhos[k].Ganho_escolhendo \in {"Nacional", r.Instituicao}

\* an institution with two cases won by Nacional at the same maximum, both kept
C11_Witness ==
    /\ pc = "rank_ganhos"
    /\ \E inst \in {"SP"} :
          /\ Cardinality(NoMaximo(inst, "Nacional")) = 2
          /\ Cardinality(SaidaDoLado(inst, "Nacional")) = 2
          /\ \E k \in SaidaDoLado(inst, "Nacional") : df_maiores_ganhos[k].Ganho > 0

\* comparar_com_nacional has returned
ComparacaoFeita == pc \in {"rank_comparada", "rank_ganhos"}

\* the comparison records of a (tecnologia, cid, institution) triple
RegistrosDe(med, cid, inst) ==
    {k \in DOMAIN df_comparacao :
        /\ df_comparacao[k].Medicamento = med
        /\ df_comparacao[k].CID = cid
        /\ df_comparacao[k].Instituicao = inst}

\* C12: comparar_com_nacional emits exactly one record for every (Tecnologia, CID,
\* institution) such that the base has a row of Nacional for (Tecnologia, CID) and a
\* row of that other institution for the same pair; every record comes from such a
\* triple, so none is of a pair without a row of Nacional and none has Nacional as
\* its 'Instituição'.
C12_UmRegistroPorTripla ==
    ComparacaoFeita =>
        /\ \A i, j \in DOMAIN df_base :
              (/\ df_base[i].Orgao = "Nacional"
               /\ df_base[j].Orgao # "Nacional"
               /\ df_base[j].Tecnologia = df_base[i].Tecnologia
               /\ df_base[j].CID = df_base[i].CID)
              => Cardinality(RegistrosDe(df_base[j].Tecnologia, df_base[j].CID,
                                         df_base[j].Orgao)) = 1
        /\ \A r \in Range(df_comparacao) :
              /\ r.Instituicao # "Nacional"
              /\ LinhaDe("Nacional", r.Medicamento, r.CID) # {}
              /\ LinhaDe(r.Instituicao, r.Medicamento, r.CID) # {}

\* two institutions compared on a pair Nacional has a row for, beside a pair an
\* institution has a row for and Nacional has not
C12_Witness ==
    /\ ComparacaoFeita
    /\ Len(df_comparacao) = 2
    /\ \E i \in DOMAIN df_base :
          /\ df_base[i].Orgao # "Nacional"
          /\ LinhaDe("Nacional", df_base[i].Tecnologia, df_base[i].CID) = {}

\* number of favourable rows of an institution, within coluna = valor unless geral
ContaFavoraveis(t, inst, coluna, valor, geral) ==
    SomaMult(t, {k \in DOMAIN t : /\ t[k].origem_tratada = inst
                                  /\ (geral \/ t[k][coluna] = valor)
                                  /\ t[k].selConclusao = "F"})

\* row r reports the n records and k favourable ones: p is the fraction k / n (0 when
\* n = 0, the value the code gives to an empty group)
RelataContagens(r, n, k) ==
    /\ r.NPareceres = n
    /\ r.Proporcao[1] * n = k * r.Proporcao[2]
    /\ r.Proporcao[2] > 0
    /\ n = 0 => r.Proporcao[1] = 0

\* the table of the end-to-end example: 90 favourable and 60 unfavourable records of
\* one institution
TabelaDoExemplo ==
    /\ SomaMult(df_filtrado, DOMAIN df_filtrado) = 150
    /\ \E inst \in InstsReg :
          /\ ContaInst(df_filtrado, inst, "origem_tratada", "", TRUE) = 150
          /\ ContaFavoraveis(df_filtrado, inst, "origem_tratada", "", TRUE) = 90

\* C13: every row of processar_subconjunto reports n = the number of records of its
\* institution after the sub-filter and p = (those with conclusion 'F') / n, and
\* every row of calcular_taxas_concessao does so for all the records of its
\* institution; 150 records of one institution with 90 favourable and
\* min_observacoes = 100 give the single row with n = 150 and p = 3/5.
C13_NEProporcaoDoGrupo ==
    /\ pc = "reg_processado" =>
          /\ \A r \in Range(resultados) :
                RelataContagens(r,
                    ContaInst(df_filtrado, r.Orgao, chamada.coluna,
                              chamada.valor_filtro, chamada.geral),
                    ContaFavoraveis(df_filtrado, r.Orgao, chamada.coluna,
                                    chamada.valor_filtro, chamada.geral))
          /\ (TabelaDoExemplo /\ chamada.geral /\ chamada.min_observacoes = 100) =>
                /\ Len(resultados) = 1
                /\ resultados[1].NPareceres = 150
                /\ resultados[1].Proporcao = <<3, 5>>
    /\ pc \in {"reg_taxas", "reg_subconjuntos"} =>
          \A r \in Range(df_taxas) :
              RelataContagens(r,
                  ContaInst(df_filtrado, r.Orgao, "origem_tratada", "", TRUE),
                  ContaFavoraveis(df_filtrado, r.Orgao, "origem_tratada", "", TRUE))

\* the example: 90 favourable and 60 unfavourable records, min_observacoes = 100
C13_Witness ==
    /\ pc = "reg_processado"
    /\ TabelaDoExemplo
    /\ chamada.geral
    /\ chamada.min_observacoes = 100
    /\ Len(resultados) = 1

\* the sum of 'Nº de pareceres' over the rows of a result
SomaPareceres(rows) == SeqSum([i \in DOMAIN rows |-> rows[i].NPareceres])

\* the rows of processar_subconjunto sum to at most the rows of its table, and to
\* exactly them if and only if no institution is below min_observacoes and the
\* sub-filter removes no row
SomaDoProcessar ==
    pc = "reg_processado" =>
        LET total == SomaMult(df_filtrado, DOMAIN df_filtrado)
            abaixo == \E k \in DOMAIN df_filtrado :
                          ContaInst(df_filtrado, df_filtrado[k].origem_tratada,
                                    chamada.coluna, chamada.valor_filtro, chamada.geral)
                              < chamada.min_observacoes
            removidos == \E k \in DOMAIN df_filtrado :
                             ~chamada.geral
                             /\ df_filtrado[k][chamada.coluna] # chamada.valor_filtro
        IN /\ SomaPareceres(resultados) <= total
           /\ (SomaPareceres(resultados) = total) <=> (~abaixo /\ ~removidos)

\* the rows of the base de controle sum to at most the rows of df_controle, and to
\* exactly them if and only if no partition has fewer than min_observacoes = 10 rows
\* (gerar_base_controle has no sub-filter)
SomaDaBase ==
    pc = "med_base_gerada" =>
        LET total == SomaMult(df_controle, DOMAIN df_controle)
            abaixo == \E key \in Particoes(df_controle) :
                          ContaParticao(df_controle, key[1], key[2], key[3])
                              < MinObservacoesMed
        IN /\ SomaPareceres(df_resultados) <= total
           /\ (SomaPareceres(df_resultados) = total) <=> ~abaixo

\* C14: in one aggregation call (processar_subconjunto, gerar_base_controle) the sum
\* of 'Nº de pareceres' over the retained groups is at most the number of input
\* records, with equality if and only if no group is below the minimum sample size
\* and no record is removed by a sub-filter.
C14_SomaNaoExcedeEntrada == SomaDoProcessar /\ SomaDaBase

\* calcular_taxas_concessao has run on a table without rows
TaxasSemGrupos ==
    /\ pc \in {"reg_taxas", "reg_subconjuntos", "reg_falhou"}
    /\ df_filtrado = <<>>

\* calcular_taxas_subconjuntos has run on a table in which no institution has
\* MinObservacoesSub rows
SubconjuntosSemGrupos ==
    /\ pc \in {"reg_subconjuntos", "reg_falhou"}
    /\ df_taxas # <<>>
    /\ \A k \in DOMAIN df_filtrado :
          ContaInst(df_filtrado, df_filtrado[k].origem_tratada, "origem_tratada", "", TRUE)
              < MinObservacoesSub

\* analisar_diferencas_entre_instituicoes has run on a base in which no pair has two
\* qualifying institutions
DiferencasSemGrupos ==
    /\ chamada.funcao = "analisar_diferencas_entre_instituicoes"
    /\ \A key \in ParesDaBase : Cardinality(OrgaosQualificados(key)) < 2

\* comparar_com_nacional has run on a base without rows
CompararSemLinhas ==
    /\ df_base = <<>>
    /\ \/ pc \in {"rank_comparada", "rank_ganhos"}
       \/ pc = "rank_sem_colunas" /\ chamada.funcao = "nenhuma"

\* C15: on an empty table, or one in which no group qualifies, calcular_taxas_concessao,
\* calcular_taxas_subconjuntos, analisar_diferencas_entre_instituicoes and
\* comparar_com_nacional end without an exception and with an empty result.
C15_VazioSemExcecao ==
    /\ TaxasSemGrupos => (erro = "" /\ df_taxas = <<>>)
    /\ SubconjuntosSemGrupos => (erro = "" /\ df_subconjuntos = <<>>)
    /\ DiferencasSemGrupos => (erro = "" /\ df_difs = <<>>)
    /\ CompararSemLinhas => (erro = "" /\ df_comparacao = <<>>)

\* the input the script of a history entry needed was missing when it ran (the files
\* a script reads are not removed by the scripts)
SemEntrada(h) == ~EntradaPresente(h.numero, arquivos)

\* C16: when the base table file is absent the driver starts no script and exits with
\* status 1; a script whose input is missing (the base table, or the base de controle
\* for the analysis of the medicines) ends in failure: run on its own it exits with a
\* status other than 0, and run by the driver it is counted as a failure.
C16_BaseAusenteAborta ==
    /\ (pc \in {"drv_inicio", "drv_loop", "drv_resumo", "drv_saiu"} /\ ~arquivos.base) =>
          /\ historico = <<>>
          /\ pc \in {"drv_inicio", "drv_saiu"}
          /\ pc = "drv_saiu" => exit_status = 1
    /\ pc = "iso_saiu" =>
          (SemEntrada(historico[1]) => (exit_status # 0 /\ ~historico[1].sucesso))
    /\ \A j \in DOMAIN historico :
          (historico[j].lancado /\ SemEntrada(historico[j])) =>
              (~historico[j].sucesso /\ scripts_sucesso < j)

\* the driver has exited with status 1 without the base table and without a script
C16_Witness ==
    /\ pc = "drv_saiu"
    /\ ~arquivos.base
    /\ arquivos.scripts = 1..NScripts
    /\ exit_status = 1
    /\ historico = <<>>

\* C17: the rows of df_difs are in descending order of spread: each row has a spread
\* at least as large as that of the row after it.
C17_OrdenadoPorDiferenca ==
    DiferencasCalculadas =>
        \A i \in DOMAIN df_difs :
            i < Len(df_difs) => df_difs[i].Diferenca >= df_difs[i + 1].Diferenca

\* fraction f is at most fraction g
FracaoNaoMaior(f, g) == f[1] * g[2] <= g[1] * f[2]

\* C18: the table of calcular_taxas_concessao is in non-decreasing order of
\* 'Proporção Favorável', and grafico_barras_sucesso draws one bar per row of its
\* input, in non-decreasing order of height, whatever the order of the input rows.
C18_TaxasEBarrasAscendentes ==
    /\ pc \in {"reg_taxas", "reg_subconjuntos", "reg_grafico"} =>
          \A i, j \in DOMAIN df_taxas :
              i < j => FracaoNaoMaior(df_taxas[i].Proporcao, df_taxas[j].Proporcao)
    /\ pc = "reg_grafico" =>
          /\ Len(barras) = Len(chamada.df_sucesso)
          /\ \A i, j \in DOMAIN barras :
                i < j => FracaoNaoMaior(barras[i].altura, barras[j].altura)
          /\ \A r \in Range(chamada.df_sucesso) :
                \E b \in Range(barras) :
                    /\ b.Orgao = r.Orgao
                    /\ b.altura[1] * r.Proporcao[2] = 100 * r.Proporcao[1] * b.altura[2]

\* bars drawn from rows given in descending order of rate
C18_Witness ==
    /\ pc = "reg_grafico"
    /\ Len(barras) = 2
    /\ FracaoMenor(chamada.df_sucesso[2].Proporcao, chamada.df_sucesso[1].Proporcao)
    /\ FracaoMenor(barras[1].altura, barras[2].altura)

\* the limits are p - m and p + m, where m = z * e and e is the square root of
\* p * (1 - p) / n, whether or not they fall inside [0, 1]
LimitesSemCorte(p, n, z) ==
    \E e \in 0..Scale :
        /\ e * e <= (p * (Scale - p)) \div n
        /\ (p * (Scale - p)) \div n < (e + 1) * (e + 1)
        /\ limites.inferior = p - (z * e) \div 100
        /\ limites.superior = p + (z * e) \div 100

\* C19: for n > 0 and 0 <= p <= 1, intervalo_confianca_proporcao returns p - margin
\* and p + margin as they are, also when the lower one is below 0 or the upper one
\* is above 1.
C19_LimitesSemCorte ==
    /\ (pc = "ic_retornou" /\ chamada.n > 0 /\ 0 <= chamada.p /\ chamada.p <= Scale) =>
          /\ ~limites.raised
          /\ LimitesSemCorte(chamada.p, chamada.n, chamada.z)
    /\ (pc = "ic_estimado" /\ chamada.qtd_total > 0) =>
          /\ ~limites.raised
          /\ LimitesSemCorte(
                 EmFixo(ProporcaoFavoravel(chamada.favoravel_count, chamada.qtd_total)),
                 chamada.qtd_total, ZPadrao)

\* a group of few records with a proportion strictly between 0 and 1 whose interval
\* goes below 0 and above 1
C19_Witness ==
    /\ pc = "ic_estimado"
    /\ 0 < chamada.favoravel_count
    /\ chamada.favoravel_count < chamada.qtd_total
    /\ limites.inferior < 0
    /\ limites.superior > Scale

\* the institutions of a table
InstituicoesDe(t) == {t[k].origem_tratada : k \in DOMAIN t}

\* the rows of a result that carry the label coluna and the institution inst
LinhasDe(rows, coluna, inst) ==
    {i \in DOMAIN rows : rows[i].Coluna = coluna /\ rows[i].Orgao = inst}

\* rows reports, under the label rotulo, exactly the institutions with at least
\* minimo records matching coluna = valor (all their records if geral), each once
\* and with the counts of its matching records only
RelataOFiltro(rows, rotulo, coluna, valor, geral, minimo) ==
    \A inst \in InstituicoesDe(df_filtrado) :
        LET n == ContaInst(df_filtrado, inst, coluna, valor, geral)
            k == ContaFavoraveis(df_filtrado, inst, coluna, valor, geral)
        IN IF n >= minimo
           THEN /\ Cardinality(LinhasDe(rows, rotulo, inst)) = 1
                /\ \A i \in LinhasDe(rows, rotulo, inst) : RelataContagens(rows[i], n, k)
           ELSE LinhasDe(rows, rotulo, inst) = {}

SemIndice(s, i) == [k \in 1..(Len(s) - 1) |-> IF k < i THEN s[k] ELSE s[k + 1]]

\* every order the rows of a table can come in
RECURSIVE Reordenacoes(_)
Reordenacoes(s) ==
    IF s = <<>> THEN {<<>>}
    ELSE UNION {{<<s[i]>> \o resto : resto \in Reordenacoes(SemIndice(s, i))} :
                i \in DOMAIN s}

\* the (institution, n, p) groups of a result of processar_subconjunto
GruposDe(rows) ==
    {<<rows[i].Orgao, rows[i].NPareceres, rows[i].Proporcao>> : i \in DOMAIN rows}

\* per (Tecnologia, CID): the total, the institutions at the maximum, the
\* institutions at the minimum and the spread
ResumoDe(rows) ==
    {[Tecnologia |-> rows[i].Tecnologia,
      CID |-> rows[i].CID,
      TotalPareceres |-> rows[i].TotalPareceres,
      OrgaosMax |-> Range(rows[i].OrgaoMax),
      OrgaosMin |-> Range(rows[i].OrgaoMin),
      Diferenca |-> rows[i].Diferenca] : i \in DOMAIN rows}

\* C21: whatever the order of the rows of the input table, processar_subconjunto
\* gives the same set of (institution, n, p) groups and
\* analisar_diferencas_entre_instituicoes gives, for each (Tecnologia, CID), the same
\* total, the same institutions at the maximum and at the minimum and the same spread.
C21_OrdemDasLinhasIndiferente ==
    /\ pc = "reg_processado" =>
          \A outra \in Reordenacoes(df_filtrado) :
              GruposDe(processar_subconjunto(outra, chamada.coluna, chamada.valor_filtro,
                                             chamada.min_observacoes, chamada.geral))
              = GruposDe(resultados)
    /\ DiferencasCalculadas =>
          \A outra \in Reordenacoes(df_base) :
              ResumoDe(ResultadosDiferencas(outra, chamada.min_pareceres))
              = ResumoDe(df_difs)

\* a record with two institutions tied at one extreme, from a base of three rows, whose
\* other orders list the tied institutions the other way round
C21_Witness ==
    /\ pc = "rank_difs"
    /\ Len(df_base) >= 3
    /\ \E i \in DOMAIN df_difs : Len(df_difs[i].OrgaoMax) = 2
    /\ \E outra \in Reordenacoes(df_base) :
          ResultadosDiferencas(outra, chamada.min_pareceres) # df_difs

\* C22: a call of processar_subconjunto, analisar_diferencas_entre_instituicoes,
\* comparar_com_nacional or analisar_maiores_ganhos leaves the table it was given as
\* it was (same rows, columns and values), and the tables computed before it too; its
\* result is a value of its own, held apart from the table.
C22_TabelaRecebidaIntacta ==
    [][/\ (pc = "reg_filtrada" /\ pc' = "reg_processado") =>
             /\ df_filtrado' = df_filtrado
             /\ resultados' = processar_subconjunto(df_filtrado', chamada'.coluna,
                                  chamada'.valor_filtro, chamada'.min_observacoes,
                                  chamada'.geral)
       /\ (pc = "rank_carregada" /\ pc' # pc) =>
             /\ df_base' = df_base
             /\ pc' = "rank_difs" =>
                   df_difs' = ResultadosDiferencas(df_base', chamada'.min_pareceres)
       /\ (pc \in {"rank_difs", "cmp_chamada"} /\ pc' # pc) =>
             /\ df_base' = df_base
             /\ df_difs' = df_difs
             /\ pc' = "rank_comparada" => df_comparacao' = comparar_com_nacional(df_base')
       /\ (pc = "rank_comparada" /\ pc' = "rank_ganhos") =>
             /\ df_comparacao' = df_comparacao
             /\ df_base' = df_base
             /\ df_maiores_ganhos' = analisar_maiores_ganhos(df_comparacao')]_vars

\* the whole script has run on a base with a row that the filters of the analysis
\* leave out, and the base still has it
C22_Witness ==
    /\ pc = "rank_ganhos"
    /\ df_difs # <<>>
    /\ \E i \in DOMAIN df_base : df_base[i].Orgao = "Nacional"
    /\ Len(FiltradoFinal(df_base, chamada.min_pareceres)) < Len(df_base)

\* the rows of a single group-by of table t on (institution, tecnologia, cid), which
\* leaves out the rows with a missing key, with the threshold and the rates of
\* gerar_base_controle
AgrupadoPorChave(t) ==
    LET chaves == {<<t[k].origem_tratada, t[k].tecnologia_principio,
                     t[k].cid_simplificado>> : k \in {j \in DOMAIN t :
                                                       t[j].cid_simplificado # NoCid}}
        doGrupo(c) == {k \in DOMAIN t : /\ t[k].origem_tratada = c[1]
                                        /\ t[k].tecnologia_principio = c[2]
                                        /\ t[k].cid_simplificado = c[3]}
        favoraveis(c) == {k \in doGrupo(c) : t[k].selConclusao = "F"}
        naoFavoraveis(c) == {k \in doGrupo(c) : t[k].selConclusao = "N"}
    IN {[Orgao |-> c[1], Tecnologia |-> c[2], CID |-> c[3],
         NPareceres |-> SomaMult(t, doGrupo(c)),
         Favoravel |-> Round3Pct(SomaMult(t, favoraveis(c)), SomaMult(t, doGrupo(c))),
         NaoFavoravel |-> Round3Pct(SomaMult(t, naoFavoraveis(c)), SomaMult(t, doGrupo(c)))] :
           c \in {d \in chaves : SomaMult(t, doGrupo(d)) > LimiteBase}}

\* C23: the nested loops of gerar_base_controle (institution, tecnologia, cid) give
\* the rows of a single group-by on (institution, tecnologia, cid) with the same
\* threshold, each once, also when the table has rows without a cid.
C23_LacosIgualAgrupamento ==
    pc = "base_retornou" =>
        /\ Range(df_resultados) = AgrupadoPorChave(df_controle)
        /\ Len(df_resultados) = Cardinality(AgrupadoPorChave(df_controle))

\* a table with eleven or more rows without a cid for one institution and tecnologia,
\* and a row written for another group
C23_Witness ==
    /\ pc = "base_retornou"
    /\ df_resultados # <<>>
    /\ \E k \in DOMAIN df_controle :
          /\ df_controle[k].cid_simplificado = NoCid
          /\ df_controle[k].mult > LimiteBase

\* the driver's main is running or has ended
NoDriver == pc \in {"drv_inicio", "drv_loop", "drv_resumo", "drv_saiu"}

\* C24: the driver runs the scripts in the listed order, one call of executar_script
\* at a time; script k is run only after the base was found and scripts 1..k-1 each
\* returned 0, and nothing is run after the first script that fails (file missing,
\* exception in the launch or return code other than 0).  The analysis of the
\* medicines is run only after the generation of the base de controle succeeded.
C24_OrdemEParadaNaPrimeiraFalha ==
    NoDriver =>
        /\ Len(historico) <= NScripts
        /\ historico # <<>> => verificar_base_dados(arquivos)
        /\ \A i \in DOMAIN historico :
              /\ historico[i].numero = i
              /\ \A j \in 1..(i - 1) :
                    /\ historico[j].sucesso
                    /\ historico[j].lancado
                    /\ historico[j].retorno = 0
              /\ historico[i].sucesso <=> (historico[i].lancado /\ historico[i].retorno = 0)
        /\ \A i \in DOMAIN historico :
              historico[i].numero = ScriptAnaliseMedicamentos =>
                  \E j \in 1..(i - 1) :
                      historico[j].numero = ScriptGerarBase /\ historico[j].retorno = 0
        /\ (pc = "drv_loop") =>
              /\ numero = Len(historico) + 1
              /\ \A j \in DOMAIN historico : historico[j].sucesso
        /\ (pc \in {"drv_resumo", "drv_saiu"} /\ historico # <<>>) =>
              \/ Len(historico) = NScripts
              \/ ~historico[Len(historico)].sucesso

\* the driver stopped at the third script, which was launched and returned a code
\* other than 0, with the files of the later scripts present
C24_Witness ==
    /\ pc = "drv_saiu"
    /\ Len(historico) = 3
    /\ historico[3].lancado
    /\ historico[3].retorno = 1
    /\ arquivos.scripts = 1..NScripts

\* the number of scripts of the history that succeeded
Sucessos == Cardinality({i \in DOMAIN historico : historico[i].sucesso})

\* the driver's main has reached the summary
NoResumo == pc = "drv_resumo" \/ (pc = "drv_saiu" /\ historico # <<>>)

\* C25: when main reaches the summary, scripts_sucesso + scripts_falha <= 6,
\* scripts_falha <= 1, scripts_sucesso is the number of scripts that succeeded, all of
\* them before the one that failed, and the exit status is 0 if and only if
\* scripts_falha = 0 and scripts_sucesso = 6, and 1 otherwise.
C25_ContagensEStatusDeSaida ==
    NoResumo =>
        /\ scripts_sucesso + scripts_falha <= NScripts
        /\ scripts_sucesso + scripts_falha = Len(historico)
        /\ scripts_falha <= 1
        /\ scripts_sucesso = Sucessos
        /\ \A i \in 1..scripts_sucesso : historico[i].sucesso
        /\ scripts_falha = 0 <=> scripts_sucesso = NScripts
        /\ pc = "drv_saiu" =>
              /\ exit_status \in {0, 1}
              /\ exit_status = 0 <=> (scripts_falha = 0 /\ scripts_sucesso = NScripts)

\* main ended with status 1 after five scripts succeeded and the sixth failed
C25_Witness ==
    /\ pc = "drv_saiu"
    /\ scripts_sucesso = 5
    /\ scripts_falha = 1
    /\ exit_status = 1

\* the sum of 'Nº de pareceres' over the rows of df_base with index in I
SomaNPareceres(I) ==
    LET f[k \in 0..Len(df_base)] ==
            IF k = 0 THEN 0
            ELSE f[k - 1] + (IF k \in I THEN df_base[k].NPareceres ELSE 0)
    IN f[Len(df_base)]

\* the rows of Nacional for a (Tecnologia, CID) pair with at least min_pareceres
NacionalNoPar(key) ==
    {i \in DOMAIN df_base :
        /\ df_base[i].Tecnologia = key[1]
        /\ df_base[i].CID = key[2]
        /\ df_base[i].Orgao = "Nacional"
        /\ df_base[i].NPareceres >= chamada.min_pareceres}

\* C26: Nacional takes no part in the ranking: no row of df_difs names Nacional as
\* most or least favourable institution, 'Total de pareceres' is the sum over the
\* qualifying rows of the other institutions only, and a pair has a row only if two
\* institutions other than Nacional qualify, a row of Nacional not counting.
C26_NacionalForaDoRanking ==
    DiferencasCalculadas =>
        /\ \A r \in Range(df_difs) :
              LET key == <<r.Tecnologia, r.CID>>
              IN /\ "Nacional" \notin Range(r.OrgaoMax) \cup Range(r.OrgaoMin)
                 /\ r.TotalPareceres = SomaNPareceres(Qualificadas(key))
                 /\ Cardinality(OrgaosQualificados(key) \ {"Nacional"}) >= MinInstituicoes
        /\ \A key \in ParesDaBase :
              (/\ NacionalNoPar(key) # {}
               /\ Cardinality(OrgaosQualificados(key)) < MinInstituicoes)
              => ~\E r \in Range(df_difs) : <<r.Tecnologia, r.CID>> = key

\* a row of df_difs for a pair where Nacional has enough pareceres and a favourable
\* rate above the maximum recorded
C26_Witness ==
    /\ pc = "rank_difs"
    /\ \E r \in Range(df_difs) :
          \E i \in NacionalNoPar(<<r.Tecnologia, r.CID>>) :
              /\ df_base[i].Favoravel > r.ValorMax
              /\ r.TotalPareceres < SomaNPareceres(Qualificadas(<<r.Tecnologia, r.CID>>) \cup {i})

\* a rate in tenths of a percent between 0 and 100
TaxaValida(v) == 0 <= v /\ v <= 1000

\* a side of a row of the quadro was written without the percentage
LadoSemPercentual(lado) == lado.percentual = <<>>

\* C27: the favourable rates of the base de controle lie in [0, 100]; every row of
\* df_difs has 0 <= minimum rate <= maximum rate <= 100 and 0 <= spread <= 100, and a
\* spread of 100 only with maximum 100 and minimum 0; the quadro has one row per
\* spread of 100, none written by the branch for other rates; and the counts of
\* spreads == 100, >= 80, >= 50, >= 20 and of all the rows are in ascending order.
C27_TaxasEDiferencasEntre0E100 ==
    /\ \A i \in DOMAIN df_resultados :
          TaxaValida(df_resultados[i].Favoravel) /\ TaxaValida(df_resultados[i].NaoFavoravel)
    /\ \A i \in DOMAIN df_base : TaxaValida(df_base[i].Favoravel)
    /\ \A r \in Range(df_difs) :
          /\ 0 <= r.ValorMin /\ r.ValorMin <= r.ValorMax /\ r.ValorMax <= 1000
          /\ TaxaValida(r.Diferenca)
          /\ r.Diferenca = 1000 => (r.ValorMax = 1000 /\ r.ValorMin = 0)
    /\ LET e == EstatisticasDeDivergencia(df_difs)
       IN /\ e.dif_100 <= e.dif_80
          /\ e.dif_80 <= e.dif_50
          /\ e.dif_50 <= e.dif_20
          /\ e.dif_20 <= e.total
          /\ pc = "rank_quadro" => Len(df_quadro) = e.dif_100
    /\ \A q \in Range(df_quadro) :
          LadoSemPercentual(q.SempreConcede) /\ LadoSemPercentual(q.NuncaConcede)

\* a quadro of one row, from an analysis with a spread of 100 and a spread of 50
C27_Witness ==
    /\ pc = "rank_quadro"
    /\ Len(df_quadro) = 1
    /\ \E r \in Range(df_difs) : r.Diferenca = 500
    /\ EstatisticasDeDivergencia(df_difs).dif_80 < EstatisticasDeDivergencia(df_difs).dif_50

\* 30/06/2025, the date of the header of filtragem.py, to its last second
DataDoCabecalho == <<2025, 6, 30, 23, 59, 59>>

\* the records of the loaded table that are of medicines and were emitted on or
\* before 30/06/2025
MedicamentosAteOCabecalho ==
    {i \in DOMAIN df : /\ df[i].selTipoTecnologia = "1"
                       /\ df[i].data_emissao # DataNula
                       /\ Instante(df[i].data_emissao) <= Instante(DataDoCabecalho)}

\* C28: the table the filtering script saves has exactly the records of medicines
\* (selTipoTecnologia = '1') emitted on or before 30/06/2025: each of them is kept
\* and every other record is dropped.
C28_MedicamentosAte30DeJunho ==
    pc = "fil_agregada" =>
        /\ Len(df_filtrado) = Cardinality(MedicamentosAteOCabecalho)
        /\ \A r \in Range(df_filtrado) :
              /\ r.selTipoTecnologia = "1"
              /\ r.data_emissao # DataNula
              /\ Instante(r.data_emissao) <= Instante(DataDoCabecalho)

\* the mapping of the methodology: sub-codes to their parent code, RS and
\* 'Não informada' to NÃO_PREENCHIDO, every other code as it is
MapaDaMetodologia(origem) ==
    IF origem \in {"PR/CAMS", "PR/CHR", "PR/UEL", "PR/CHC-UFPR"} THEN "PR"
    ELSE IF origem \in {"AM/SES", "AM/SEMSA", "AM"} THEN "AM"
    ELSE IF origem = "SP/HC" THEN "SP"
    ELSE IF origem \in {"RS", "Nao informada"} THEN NaoPreenchido
    ELSE origem

\* C29: the aggregation step replaces the institution of each record by the one the
\* methodology gives (PR/CAMS, PR/CHR, PR/UEL, PR/CHC-UFPR -> PR; AM/SES, AM/SEMSA,
\* AM -> AM; SP/HC -> SP; RS, 'Não informada' -> NÃO_PREENCHIDO; any other code
\* unchanged), keeps every record and adds none, changes no other column, and applied
\* to its own output changes nothing.
C29_AgregacaoDaMetodologia ==
    [][(pc = "fil_tecnologia" /\ pc' = "fil_agregada") =>
          /\ Len(df_filtrado') = Len(df_filtrado)
          /\ \A i \in DOMAIN df_filtrado :
                /\ df_filtrado'[i].origem_tratada =
                       MapaDaMetodologia(df_filtrado[i].origem_tratada)
                /\ df_filtrado'[i].data_emissao = df_filtrado[i].data_emissao
                /\ df_filtrado'[i].selTipoTecnologia = df_filtrado[i].selTipoTecnologia
          /\ AgregarInstituicoesDe(df_filtrado') = df_filtrado']_vars

\* the items of MAPA_CID whose interval, of one letter to one letter, has the letter
GruposDaLetra(letra) ==
    {i \in DOMAIN MAPA_CID :
        /\ Len(MAPA_CID[i].de) = 1 /\ Len(MAPA_CID[i].ate) = 1
        /\ Ord(MAPA_CID[i].de[1]) <= Ord(letra)
        /\ Ord(letra) <= Ord(MAPA_CID[i].ate[1])}

\* the numeric part is a whole number: digits, with an optional sign
NumInteiro(num_str) ==
    \/ SoDigitos(num_str)
    \/ num_str # <<>> /\ Head(num_str) \in {"-", "+"} /\ SoDigitos(Tail(num_str))

\* C30: obter_tipo_do_cid gives every uppercase letter A-Z with a numeric part that
\* is an integer exactly one non-empty label: for H the eye group when the number
\* is <= 59 and the ear group otherwise, for D neoplasms when the number is <= 48
\* and the blood/immune group otherwise, for any other letter the label of the
\* single group whose letter interval contains it; and it gives the empty text when
\* the numeric part is missing or is not an integer.
C30_TipoDoCidTotal ==
    pc = "cid_classificado" =>
        \A i \in DOMAIN df :
            LET letra == df[i].CID4_Letra
                num_str == df[i].CID4_Num
                tipo == df[i].CID4_Tipo
            IN  /\ (num_str = NoCid \/ ~NumInteiro(num_str)) => tipo = ""
                /\ (num_str # NoCid /\ NumInteiro(num_str) /\ letra \in UpperLetters) =>
                      /\ tipo # ""
                      /\ letra = "H" =>
                            tipo = (IF int(num_str).valor <= 59 THEN OlhoEAnexos
                                    ELSE OuvidoEMastoide)
                      /\ letra = "D" =>
                            tipo = (IF int(num_str).valor <= 48 THEN NeoplasiasD
                                    ELSE SangueEImunologico)
                      /\ letra \notin {"H", "D"} =>
                            /\ Cardinality(GruposDaLetra(letra)) = 1
                            /\ \A g \in GruposDaLetra(letra) : tipo = MAPA_CID[g].valor

\* D49 was classified, in the blood/immune group
C30_Witness ==
    /\ pc = "cid_classificado"
    /\ df[1].CID4_Letra = "D"
    /\ df[1].CID4_Num = <<"4", "9">>
    /\ df[1].CID4_Tipo = SangueEImunologico

====
